---- MODULE Spec2Model ----
(***************************************************************************)
(* A model of the Rush web SDK facade (RushSDK.ts) over the ECS World      *)
(* (core/World.ts, core/Entity.ts).                                        *)
(*                                                                         *)
(* The facade is driven by one logical caller that awaits every call       *)
(* (spec section 5).  A synchronous method is one action.  An async method *)
(* is cut at its awaits: the code up to an await is one action, the        *)
(* environment's answer to the awaited storage call and the code up to the *)
(* next await is the next one.  pc names the async method being awaited.   *)
(***************************************************************************)
EXTENDS Integers, Sequences, FiniteSets, TLC

(***************************************************************************)
(* JavaScript values.  A value is a tagged record; each tag keeps its      *)
(* payload in a field of its own.                                          *)
(***************************************************************************)
JNum(n) == [t |-> "number", n |-> n]
JStr(s) == [t |-> "string", s |-> s]
JBool(b) == [t |-> "boolean", b |-> b]
JNull == [t |-> "null"]
JUndef == [t |-> "undefined"]
JArr(a) == [t |-> "array", a |-> a]
JObj(o) == [t |-> "object", o |-> o]
\* a function value: all the validator reads of one is its typeof
JFunc == [t |-> "function"]

\* typeof v
TypeOf(v) ==
    IF v.t \in {"null", "array", "object"} THEN "object" ELSE v.t

\* Array.isArray(v)
IsArray(v) == v.t = "array"

\* v used as a condition
Truthy(v) ==
    CASE v.t = "undefined" -> FALSE
      [] v.t = "null" -> FALSE
      [] v.t = "boolean" -> v.b
      [] v.t = "number" -> v.n # 0
      [] v.t = "string" -> v.s # ""
      [] OTHER -> TRUE

\* v[k] for a parsed JSON value v: undefined unless v is an object with key k
Field(v, k) ==
    IF v.t = "object" /\ k \in DOMAIN v.o THEN v.o[k] ELSE JUndef

\* The function-valued members every plain object inherits from
\* Object.prototype: they are not own keys, but the operator 'in' finds them
ObjectPrototype ==
    { "constructor", "hasOwnProperty", "isPrototypeOf",
      "propertyIsEnumerable", "toLocaleString", "toString", "valueOf" }

\* k in o, for a plain object with the own keys DOMAIN o
In(k, o) == k \in DOMAIN o \/ k \in ObjectPrototype

\* o[k] where k in o holds: the own value, else the inherited function
Get(o, k) == IF k \in DOMAIN o THEN o[k] ELSE JFunc

\* The order in which the keys of the modelled objects are enumerated
\* (Object.entries, for..in): the order the inputs below list them in.
KeyRank ==
    <<"Position", "position", "PlayerTag", "x", "y", "z", "extra">>

RECURSIVE KeysFrom(_, _)
KeysFrom(dom, i) ==
    IF i > Len(KeyRank) THEN <<>>
    ELSE (IF KeyRank[i] \in dom THEN <<KeyRank[i]>> ELSE <<>>)
             \o KeysFrom(dom, i + 1)

\* Object.keys(o) of an object with the key set DOMAIN o
Keys(o) == KeysFrom(DOMAIN o, 1)

\* names.join(sep)
RECURSIVE Join(_, _)
Join(names, sep) ==
    IF Len(names) = 0 THEN ""
    ELSE IF Len(names) = 1 THEN names[1]
    ELSE names[1] \o sep \o Join(Tail(names), sep)

(***************************************************************************)
(* ComponentSchema.  The field "type" of the source is a name or a list of *)
(* names: [list |-> FALSE, names |-> <<name>>] or [list |-> TRUE, names    *)
(* |-> the list].  "items" likewise is a schema or a list of schemas.      *)
(* "properties" is the sequence of [name, schema] in declaration order.    *)
(* An absent field of the source is an absent field of the record.         *)
(***************************************************************************)
TypeName(n) == [list |-> FALSE, names |-> <<n>>]
TypeList(ns) == [list |-> TRUE, names |-> ns]
Has(schema, f) == f \in DOMAIN schema
Includes(seq, x) == \E i \in 1..Len(seq) : seq[i] = x

NoError == ""
Ok == [err |-> NoError, warns |-> {}]
Throw(msg) == [err |-> msg, warns |-> {}]
\* r1 then r2: what was logged before a throw stays logged
AndThen(r1, r2) ==
    IF r1.err # NoError THEN r1
    ELSE [err |-> r2.err, warns |-> r1.warns \cup r2.warns]

\* RushSDK.ts 320-339: the type check of one node
TypeMatch(data, schema) ==
    IF schema.type.list
    THEN \/ Includes(schema.type.names, TypeOf(data))
         \/ Includes(schema.type.names, "array") /\ IsArray(data)
         \/ Includes(schema.type.names, "null") /\ data = JNull
    ELSE \/ schema.type.names[1] = "array" /\ IsArray(data)
         \/ schema.type.names[1] = "null" /\ data = JNull
         \/ TypeOf(data) = schema.type.names[1]

TypeCheck(data, schema, path) ==
    IF /\ Has(schema, "type")
       /\ ~(~schema.type.list /\ TypeOf(data) = schema.type.names[1])
       /\ ~(schema.type.list /\ Includes(schema.type.names, TypeOf(data)))
       /\ ~TypeMatch(data, schema)
    THEN Throw("Data for component \"" \o path
               \o "\" has incorrect type. Expected "
               \o (IF schema.type.list THEN Join(schema.type.names, " or ")
                   ELSE schema.type.names[1])
               \o ", got " \o TypeOf(data) \o ".")
    ELSE Ok

IsType(schema, n) ==
    Has(schema, "type") /\ ~schema.type.list /\ schema.type.names[1] = n

\* RushSDK.ts 347-353
RECURSIVE RequiredCheck(_, _, _, _)
RequiredCheck(data, required, i, path) ==
    IF i > Len(required) THEN Ok
    ELSE IF ~In(required[i], data.o)
    THEN Throw("Missing required property \"" \o required[i]
               \o "\" for component \"" \o path \o "\".")
    ELSE RequiredCheck(data, required, i + 1, path)

\* RushSDK.ts 370-375: a key the schema does not declare is logged
\* (dataKey in schema.properties)
ExtraProperties(data, props) ==
    { d \in DOMAIN data.o :
        /\ ~\E i \in 1..Len(props) : props[i].name = d
        /\ d \notin ObjectPrototype }

ExtraPropertyWarning(path, key) ==
    "Warning: Component \"" \o path \o "\" has extra property \"" \o key
    \o "\" not defined in blueprint schema."

\* (mutant) the alternative RushSDK.ts 373 leaves commented out
ExtraPropertiesCheck_throws(data, props, path) ==
    IF ExtraProperties(data, props) = {} THEN Ok
    ELSE Throw("Extra property \""
               \o (CHOOSE k \in ExtraProperties(data, props) : TRUE)
               \o "\" not allowed for component \"" \o path \o "\".")

ExtraPropertiesCheck(data, props, path) ==
    [err |-> NoError,
     warns |-> { ExtraPropertyWarning(path, k) :
                 k \in ExtraProperties(data, props) }]

\* (mutant) a bound is applied only if it is truthy: a bound of 0 is not
Defined_truthy(schema, f) == Has(schema, f) /\ schema[f] # 0

\* schema.minLength !== undefined, and likewise for the other bounds
Defined(schema, f) == Has(schema, f)

\* RushSDK.ts 393-407.  A pattern is modelled by the set of the strings it
\* matches.
ScalarChecks(data, schema, path) ==
    IF /\ Defined(schema, "minLength") /\ data.t = "string"
       /\ Len(data.s) < schema.minLength
    THEN Throw("Component \"" \o path \o "\" string length "
               \o ToString(Len(data.s)) \o " is less than minimum "
               \o ToString(schema.minLength) \o ".")
    ELSE IF /\ Defined(schema, "maxLength") /\ data.t = "string"
            /\ Len(data.s) > schema.maxLength
    THEN Throw("Component \"" \o path \o "\" string length "
               \o ToString(Len(data.s)) \o " exceeds maximum "
               \o ToString(schema.maxLength) \o ".")
    ELSE IF /\ Defined(schema, "minimum") /\ data.t = "number"
            /\ data.n < schema.minimum
    THEN Throw("Component \"" \o path \o "\" value " \o ToString(data.n)
               \o " is less than minimum " \o ToString(schema.minimum)
               \o ".")
    ELSE IF /\ Defined(schema, "maximum") /\ data.t = "number"
            /\ data.n > schema.maximum
    THEN Throw("Component \"" \o path \o "\" value " \o ToString(data.n)
               \o " exceeds maximum " \o ToString(schema.maximum) \o ".")
    ELSE IF /\ Has(schema, "pattern") /\ data.t = "string"
            /\ data.s \notin schema.pattern.matches
    THEN Throw("Component \"" \o path \o "\" value \"" \o data.s
               \o "\" does not match pattern \"" \o schema.pattern.source
               \o "\".")
    ELSE Ok

\* RushSDK.ts 319-408
RECURSIVE validateComponentDataAgainstSchema(_, _, _)
RECURSIVE PropertiesCheck(_, _, _, _)
RECURSIVE ItemsCheck(_, _, _, _)

\* RushSDK.ts 357-368
PropertiesCheck(data, props, i, path) ==
    IF i > Len(props) THEN Ok
    ELSE AndThen(
           IF In(props[i].name, data.o)
           THEN validateComponentDataAgainstSchema(
                    Get(data.o, props[i].name), props[i].schema,
                    path \o "." \o props[i].name)
           ELSE Ok,
           PropertiesCheck(data, props, i + 1, path))

\* RushSDK.ts 385-387
ItemsCheck(data, itemSchema, i, path) ==
    IF i > Len(data.a) THEN Ok
    ELSE AndThen(
           validateComponentDataAgainstSchema(
               data.a[i], itemSchema,
               path \o "[" \o ToString(i - 1) \o "]"),
           ItemsCheck(data, itemSchema, i + 1, path))

\* (mutant) of a list of item schemas the last one is applied
ItemSchema_last(items) == items.schemas[Len(items.schemas)]

\* RushSDK.ts 383: Array.isArray(schema.items) ? schema.items[0] :
\* schema.items
ItemSchema(items) == items.schemas[1]

\* RushSDK.ts 341-390
StructureCheck(data, schema, path) ==
    IF IsType(schema, "object")
    THEN IF data.t # "object"
         THEN Throw("Component \"" \o path
                    \o "\" data expected to be an object, got "
                    \o TypeOf(data) \o ".")
         ELSE AndThen(
                IF Has(schema, "required")
                THEN RequiredCheck(data, schema.required, 1, path)
                ELSE Ok,
                IF Has(schema, "properties")
                THEN AndThen(
                       PropertiesCheck(data, schema.properties, 1, path),
                       ExtraPropertiesCheck(data, schema.properties, path))
                ELSE Ok)
    ELSE IF IsType(schema, "array")
    THEN IF ~IsArray(data)
         THEN Throw("Component \"" \o path
                    \o "\" data expected to be an array, got "
                    \o TypeOf(data) \o ".")
         ELSE IF /\ Has(schema, "items")
                 /\ Len(data.a) > 0
                 /\ Len(schema.items.schemas) > 0
         THEN ItemsCheck(data, ItemSchema(schema.items), 1, path)
         ELSE Ok
    ELSE Ok

validateComponentDataAgainstSchema(data, schema, componentType) ==
    AndThen(TypeCheck(data, schema, componentType),
            AndThen(StructureCheck(data, schema, componentType),
                    ScalarChecks(data, schema, componentType)))

(***************************************************************************)
(* Bounds and the inputs the operations are tried on.                      *)
(***************************************************************************)
MaxEntities == 2
MaxAccounts == 2
MaxComponents == 2
\* World.addSystem is tried while fewer than MaxSystems are registered;
\* World.update is tried while no position has moved beyond MaxCoord
MaxSystems == 2
MaxCoord == 2

NULL == "null"
Keypairs == {"W1", "W2"}

\* Entity ids are the base58 form of a generated account key.
IdOf(i) == "e" \o ToString(i)
EntityIds == { IdOf(i) : i \in 1..MaxEntities }

\* What new PublicKey(s) accepts
IsAddress(s) == s \in EntityIds \cup Keypairs

PosXY == JObj([x |-> JNum(1), y |-> JNum(2)])
PosXYExtra == JObj([x |-> JNum(1), y |-> JNum(2), extra |-> JBool(TRUE)])
PosX == JObj([x |-> JNum(1)])

\* [componentType, data] pairs handed to createEntity and processComponent
ComponentInputs ==
    { <<"Position", PosXY>>, <<"Position", PosXYExtra>>,
      <<"Position", PosX>>, <<"position", PosXY>> }

\* The components argument of createEntity: an object, as its entries in
\* insertion order (the keys of an object are distinct)
ComponentsArgs ==
    { cs \in UNION { [1..n -> ComponentInputs] : n \in 0..MaxComponents } :
        \A i, j \in 1..Len(cs) : i # j => cs[i][1] # cs[j][1] }

(***************************************************************************)
(* The blueprint file: none given, one without componentSchemas, or the    *)
(* sample blueprint of the test suite.                                     *)
(***************************************************************************)
PositionSchema ==
    [type |-> TypeName("object"),
     properties |->
        << [name |-> "x", schema |-> [type |-> TypeName("number")]],
           [name |-> "y", schema |-> [type |-> TypeName("number")]],
           [name |-> "z", schema |-> [type |-> TypeName("number"),
                                      optional |-> TRUE]] >>,
     required |-> <<"x", "y">>]

PlayerTagSchema == [type |-> TypeName("boolean")]

sampleBlueprint ==
    [loaded |-> TRUE, name |-> "TestBlueprint",
     componentSchemas |->
        [Position |-> PositionSchema, PlayerTag |-> PlayerTagSchema]]

blueprintWithoutSchemas == [loaded |-> TRUE, name |-> "TestBlueprint"]

\* this.blueprint = null
NoBlueprint == [loaded |-> FALSE]

Blueprints == {NoBlueprint, blueprintWithoutSchemas, sampleBlueprint}

(***************************************************************************)
(* State.                                                                  *)
(***************************************************************************)
VARIABLES
    wallet,                \* RushSDK.wallet: a keypair or NULL
    userWalletPublicKey,   \* RushSDK.userWalletPublicKey
    activeSessionKeypair,  \* RushSDK.activeSessionKeypair
    blueprint,             \* RushSDK.blueprint
    entities,              \* World.entities, in Map insertion order
    pc,                    \* the async method being awaited, or "idle"
    pending,               \* the locals of that method
    calls,                 \* the storage calls the latest operation issued
    last,                  \* the latest operation and how it ended
    primary,               \* history: argument of the last setPrimaryWallet
                           \* or setWallet
    sessionFor,            \* history: the session keypair activated since
    systems,               \* World.systems, in registration order
    queries,               \* World.queries, the query cache
    held,                  \* the Map a getComponents() call gave the caller
    input,                 \* the arguments of the call examined
    chain,                 \* the accounts allocated on chain, oldest first
    sessionAuth,           \* SessionAuth: the persisted entries and the
                           \* in-memory expiration
    now                    \* Date.now()

vars ==
    <<wallet, userWalletPublicKey, activeSessionKeypair, blueprint, entities,
      pc, pending, calls, last, primary, sessionFor, systems, queries, held,
      input, chain, sessionAuth, now>>

\* What the methods of the facade modelled below leave alone.  They never
\* call World.query, so the query cache they walk when they create or remove
\* an entity has no entry to update.
\* The chain and the session store, which the World never touches
outerVars == <<chain, sessionAuth, now>>

otherVars == <<systems, queries, held, input, outerVars>>

walletVars ==
    <<wallet, userWalletPublicKey, activeSessionKeypair, primary, sessionFor>>

(***************************************************************************)
(* Entity and World.                                                       *)
(***************************************************************************)
\* new Entity(id, publicKey)
NewEntity(id, publicKey) ==
    [id |-> id, publicKey |-> publicKey, components |-> <<>>]

\* Entity.addComponent
addComponent(e, componentType, data) ==
    [e EXCEPT !.components =
        (componentType :> data)
            @@ [k \in DOMAIN e.components \ {componentType} |->
                    e.components[k]]]

\* Entity.hasComponent
hasComponent(e, componentType) == componentType \in DOMAIN e.components

\* Entity.getComponents: a new Map with the same entries
getComponents(e) == e.components

\* The index of the entity with this id in the Map, 0 if there is none
IndexOf(ents, id) ==
    IF \E i \in 1..Len(ents) : ents[i].id = id
    THEN CHOOSE i \in 1..Len(ents) : ents[i].id = id
    ELSE 0

\* World.getEntity(id) is defined
HasEntity(ents, id) == IndexOf(ents, id) # 0

\* World.getEntity(id), when it is defined
getEntity(ents, id) == ents[IndexOf(ents, id)]

\* (mutant) creating an entity starts the Map of entities anew
WorldCreateEntity_startsAnew(ents, id, publicKey) ==
    <<NewEntity(id, publicKey)>>

\* World.createEntity: Map.set keeps the position of a key it already has.
\* updateQueries walks the query cache, which nothing fills.
WorldCreateEntity(ents, id, publicKey) ==
    IF HasEntity(ents, id)
    THEN [ents EXCEPT ![IndexOf(ents, id)] = NewEntity(id, publicKey)]
    ELSE Append(ents, NewEntity(id, publicKey))

\* World.query
query(ents, names) ==
    SelectSeq(ents, LAMBDA e :
        \A i \in 1..Len(names) : hasComponent(e, names[i]))

EntityIdsOf(ents) == { ents[i].id : i \in 1..Len(ents) }

(***************************************************************************)
(* RushSDK: payer resolution, component processing, (de)serialization.     *)
(***************************************************************************)
\* (mutant) the message of the payer check of RushSDK.ts 508
NoPayerMsg_ofSave == "Payer not available. Cannot save to chain."

\* RushSDK.ts 90
NoPayerMsg ==
    "No active payer wallet found. Set a primary wallet or create and activate a session."
WalletNotSetMsg == "Wallet not set. Cannot sync with chain."
SyncFailedMsg == "Failed to sync with chain"
SaveFailedMsg == "Failed to save world state to chain"
StorageFailure == "storage failure"
CreateFailedMsg(entityId) ==
    "Failed to save entity " \o entityId \o " to chain during creation."
SaveEntityFailedMsg(entityId) ==
    "Failed to save entity " \o entityId \o " to chain"

\* RushSDK.getActivePayer: the keypair, or NULL where the code throws
\* SDKError(NoPayerMsg)
getActivePayer ==
    IF activeSessionKeypair # NULL THEN activeSessionKeypair
    ELSE IF wallet # NULL THEN wallet
    ELSE NULL

\* The outcome of a stretch of code: the error thrown (NoError if none), the
\* warnings logged, and the World's entities after it
Outcome(err, warns, ents) == [err |-> err, warns |-> warns, entities |-> ents]

NotDefinedMsg(componentType) ==
    "Component type \"" \o componentType
    \o "\" is not defined in the blueprint's componentSchemas."

\* componentSchemas[componentType] where componentType in componentSchemas:
\* the declared schema, else an inherited function, which has none of the
\* fields a schema is read for
SchemaOf(componentSchemas, componentType) ==
    IF componentType \in DOMAIN componentSchemas
    THEN componentSchemas[componentType]
    ELSE [native |-> TRUE]

\* RushSDK.ts 289-304: the blueprint's verdict on one component
BlueprintCheck(bp, componentType, data) ==
    IF ~bp.loaded THEN Ok
    ELSE IF ~Has(bp, "componentSchemas")
    THEN [err |-> NoError,
          warns |-> { "Blueprint \"" \o bp.name
                      \o "\" is loaded but does not contain a 'componentSchemas' definition. Skipping validation for component \""
                      \o componentType \o "\"." }]
    ELSE IF ~In(componentType, bp.componentSchemas)
    THEN Throw(NotDefinedMsg(componentType))
    ELSE validateComponentDataAgainstSchema(
             data, SchemaOf(bp.componentSchemas, componentType),
             componentType)

NotFoundWarning(entityId, componentType) ==
    "Entity \"" \o entityId \o "\" not found locally. Component \""
    \o componentType \o "\" was validated but not added."

\* (mutant) the throw RushSDK.ts 314 leaves commented out
processComponent_throwsIfMissing(bp, ents, entityId, componentType, data) ==
    LET v == BlueprintCheck(bp, componentType, data) IN
    IF v.err # NoError THEN Outcome(v.err, v.warns, ents)
    ELSE IF HasEntity(ents, entityId)
    THEN Outcome(NoError, v.warns,
                 [ents EXCEPT ![IndexOf(ents, entityId)] =
                     addComponent(@, componentType, data)])
    ELSE Outcome("Entity \"" \o entityId \o "\" not found.",
                 v.warns \cup {NotFoundWarning(entityId, componentType)},
                 ents)

\* RushSDK.processComponent
processComponent(bp, ents, entityId, componentType, data) ==
    LET v == BlueprintCheck(bp, componentType, data) IN
    IF v.err # NoError THEN Outcome(v.err, v.warns, ents)
    ELSE IF HasEntity(ents, entityId)
    THEN Outcome(NoError, v.warns,
                 [ents EXCEPT ![IndexOf(ents, entityId)] =
                     addComponent(@, componentType, data)])
    ELSE Outcome(NoError,
                 v.warns \cup {NotFoundWarning(entityId, componentType)},
                 ents)

\* for (const [type, data] of entries) this.processComponent(id, type, data)
RECURSIVE ProcessEntries(_, _, _, _, _)
ProcessEntries(bp, ents, entityId, entries, i) ==
    IF i > Len(entries) THEN Outcome(NoError, {}, ents)
    ELSE LET r == processComponent(bp, ents, entityId,
                                   entries[i][1], entries[i][2]) IN
         IF r.err # NoError THEN r
         ELSE LET rest == ProcessEntries(bp, r.entities, entityId,
                                         entries, i + 1) IN
              Outcome(rest.err, r.warns \cup rest.warns, rest.entities)

\* Account bytes: text that JSON.parse rejects, or the text of a JSON value
Garbage == [parses |-> FALSE]
JsonText(v) == [parses |-> TRUE, json |-> v]

\* RushSDK.serializeEntityData
serializeEntityData(e) ==
    JsonText(JObj([id |-> JStr(e.id),
                   owner |-> JStr(e.publicKey),
                   components |-> JObj(getComponents(e))]))

\* RushSDK.deserializeEntityData: ok is FALSE where the code returns null
deserializeEntityData(data) ==
    IF ~data.parses
    THEN [ok |-> FALSE, warns |-> {"Error deserializing entity data:"}]
    ELSE IF /\ Truthy(data.json)
            /\ TypeOf(Field(data.json, "id")) = "string"
            /\ TypeOf(Field(data.json, "owner")) = "string"
            /\ TypeOf(Field(data.json, "components")) = "object"
    THEN [ok |-> TRUE, warns |-> {}, value |-> data.json]
    ELSE [ok |-> FALSE,
          warns |-> {"Failed to deserialize or validate entity data:"}]

\* Object.entries(v) for v with typeof v = "object"; it throws on null
EntriesThrow(v) == v.t = "null"
ObjectEntries(v) ==
    IF v.t = "array"
    THEN [i \in 1..Len(v.a) |-> <<ToString(i - 1), v.a[i]>>]
    ELSE [i \in 1..Len(Keys(v.o)) |-> <<Keys(v.o)[i], v.o[Keys(v.o)[i]]>>]

\* RushSDK.ts 468: entity.getComponents().clear() empties the Map that
\* getComponents() has just built; the entity keeps its own
ClearFetchedCopy(ents, entityId) == ents

\* RushSDK.ts 460-474: one account of the loop of syncWithChain
SyncAccount(bp, ents, account) ==
    LET d == deserializeEntityData(account.data) IN
    IF ~d.ok
    THEN Outcome(NoError,
                 d.warns \cup {"Failed to deserialize data for account: "
                               \o account.pubkey},
                 ents)
    ELSE LET id == d.value.o.id.s
             owner == d.value.o.owner.s
             components == d.value.o.components
         IN IF ~HasEntity(ents, id) /\ ~IsAddress(owner)
            THEN Outcome("Invalid public key input", {}, ents)
            ELSE LET ents1 == IF HasEntity(ents, id) THEN ents
                              ELSE WorldCreateEntity(ents, id, owner)
                     ents2 == ClearFetchedCopy(ents1, id)
                 IN IF EntriesThrow(components)
                    THEN Outcome(
                           "Cannot convert undefined or null to object",
                           {}, ents2)
                    ELSE ProcessEntries(bp, ents2, id,
                                        ObjectEntries(components), 1)

\* (mutant) a record the blueprint rejects is skipped and the loop goes on
RECURSIVE SyncAccounts_skipsRejected(_, _, _, _)
SyncAccounts_skipsRejected(bp, ents, accounts, i) ==
    IF i > Len(accounts) THEN Outcome(NoError, {}, ents)
    ELSE LET r == SyncAccount(bp, ents, accounts[i])
             rest == SyncAccounts_skipsRejected(bp, r.entities, accounts,
                                                i + 1)
         IN Outcome(rest.err, r.warns \cup rest.warns, rest.entities)

\* RushSDK.ts 459-475
RECURSIVE SyncAccounts(_, _, _, _)
SyncAccounts(bp, ents, accounts, i) ==
    IF i > Len(accounts) THEN Outcome(NoError, {}, ents)
    ELSE LET r == SyncAccount(bp, ents, accounts[i]) IN
         IF r.err # NoError THEN r
         ELSE LET rest == SyncAccounts(bp, r.entities, accounts, i + 1) IN
              Outcome(rest.err, r.warns \cup rest.warns, rest.entities)

(***************************************************************************)
(* The record of the latest operation, and the storage calls it issued.    *)
(***************************************************************************)
Result(op, result, msg, cause, warns, ret) ==
    [op |-> op, result |-> result, msg |-> msg, cause |-> cause,
     warns |-> warns, ret |-> ret]

\* the call returned (or its promise resolved) with ret
Returned(op, warns, ret) == Result(op, "ok", NoError, NoError, warns, ret)
\* the call threw (or its promise rejected with) SDKError(msg, cause)
Raised(op, msg, cause, warns) == Result(op, "error", msg, cause, warns, NULL)
\* the call is suspended at an await
Awaiting(op, warns) == Result(op, "pending", NoError, NoError, warns, NULL)

StorageCall(op, id, data, payer) ==
    [op |-> op, id |-> id, data |-> data, payer |-> payer,
     worldName |-> "default_world", status |-> "pending"]

\* The awaited call, the last one issued, as answered
Answered(cs, status) == [cs EXCEPT ![Len(cs)].status = status]

NoPending == [op |-> "idle"]
\* The caller holds no Map; no validator call is examined
NoHeld == [of |-> NULL]
NoInput == [given |-> FALSE]
\* localStorage.getItem finds no 'session' entry
NoItem == [iv |-> "", absent |-> TRUE]
\* new SessionAuth(connection): nothing persisted, no expiration set
NoSession ==
    [session |-> NoItem, sessionData |-> NULL, sessionExpiration |-> 0]

Init ==
    /\ wallet = NULL
    /\ userWalletPublicKey = NULL
    /\ activeSessionKeypair = NULL
    /\ blueprint \in Blueprints
    /\ entities = <<>>
    /\ pc = "idle"
    /\ pending = NoPending
    /\ calls = <<>>
    /\ last = Returned("constructor", {}, NULL)
    /\ primary = NULL
    /\ sessionFor = NULL
    /\ systems = <<>>
    /\ queries = <<>>
    /\ held = NoHeld
    /\ input = NoInput
    /\ chain = <<>>
    /\ sessionAuth = NoSession
    /\ now = 0

(***************************************************************************)
(* Wallet and session methods.                                             *)
(***************************************************************************)
\* (mutant) the primary wallet is set and a running session is kept
setPrimaryWallet_keepsSession(w) ==
    /\ pc = "idle"
    /\ wallet' = w
    /\ userWalletPublicKey' = w
    /\ primary' = w
    /\ sessionFor' = NULL
    /\ calls' = <<>>
    /\ last' = Returned("setPrimaryWallet", {}, NULL)
    /\ UNCHANGED <<activeSessionKeypair, blueprint, entities, pc, pending>>
    /\ UNCHANGED otherVars

\* RushSDK.setPrimaryWallet
setPrimaryWallet(w) ==
    /\ pc = "idle"
    /\ wallet' = w
    /\ userWalletPublicKey' = w
    /\ activeSessionKeypair' = NULL
    /\ primary' = w
    /\ sessionFor' = NULL
    /\ calls' = <<>>
    /\ last' = Returned("setPrimaryWallet", {}, NULL)
    /\ UNCHANGED <<blueprint, entities, pc, pending>>
    /\ UNCHANGED otherVars

\* RushSDK.setWallet
setWallet(w) ==
    /\ pc = "idle"
    /\ wallet' = w
    /\ userWalletPublicKey' =
           IF userWalletPublicKey = NULL \/ userWalletPublicKey # w
           THEN w ELSE userWalletPublicKey
    /\ activeSessionKeypair' = NULL
    /\ primary' = w
    /\ sessionFor' = NULL
    /\ calls' = <<>>
    /\ last' = Returned("setWallet",
                        {"setWallet is called. Consider using setPrimaryWallet or activateSessionKeypair for clarity with session management."},
                        NULL)
    /\ UNCHANGED <<blueprint, entities, pc, pending>>
    /\ UNCHANGED otherVars

\* RushSDK.activateSessionKeypair
activateSessionKeypair(sessionKeypair) ==
    /\ pc = "idle"
    /\ activeSessionKeypair' = sessionKeypair
    /\ wallet' = sessionKeypair
    /\ sessionFor' = sessionKeypair
    /\ calls' = <<>>
    /\ last' = Returned("activateSessionKeypair", {}, NULL)
    /\ UNCHANGED <<userWalletPublicKey, primary, blueprint, entities, pc,
                   pending>>
    /\ UNCHANGED otherVars

\* RushSDK.deactivateSession
deactivateSession ==
    /\ pc = "idle"
    /\ activeSessionKeypair' = NULL
    /\ wallet' = NULL
    /\ calls' = <<>>
    /\ last' = Returned("deactivateSession", {}, NULL)
    /\ UNCHANGED <<userWalletPublicKey, primary, sessionFor, blueprint,
                   entities, pc, pending>>
    /\ UNCHANGED otherVars

\* SessionAuth.revokeSession: the refund, then both persisted entries are
\* erased.  The refund is asynchronous: the call may throw, and when it
\* does not the entries are erased or the refund is still to fail.
revokeSession(encrypted, auth, threw, erased) ==
    IF threw THEN [err |-> "revokeSession failed", auth |-> auth]
    ELSE [err |-> NoError,
          auth |-> IF erased
                   THEN [auth EXCEPT !.session = NoItem, !.sessionData = NULL]
                   ELSE auth]

\* (mutant) a revoked session stays the active payer
RevokeUserSession_staysActive(encrypted, threw, erased) ==
    /\ pc = "idle"
    /\ LET r == revokeSession(encrypted, sessionAuth, threw, erased)
       IN /\ sessionAuth' = r.auth
          /\ last' = IF r.err # NoError
                     THEN Raised("revokeUserSession",
                                 "Failed to revoke user session", r.err, {})
                     ELSE Returned("revokeUserSession",
                            {"Revoke user session request processed."}, NULL)
          /\ activeSessionKeypair' = activeSessionKeypair
          /\ wallet' = IF r.err = NoError /\ activeSessionKeypair # NULL
                       THEN NULL ELSE wallet
    /\ input' = [given |-> TRUE, op |-> "revokeUserSession",
                 encrypted |-> encrypted]
    /\ calls' = <<>>
    /\ UNCHANGED <<userWalletPublicKey, primary, sessionFor, blueprint,
                   entities, pc, pending, systems, queries, held, chain, now>>

\* RushSDK.revokeUserSession
RevokeUserSession(encrypted, threw, erased) ==
    /\ pc = "idle"
    /\ LET r == revokeSession(encrypted, sessionAuth, threw, erased)
           deactivates == r.err = NoError /\ activeSessionKeypair # NULL
       IN /\ sessionAuth' = r.auth
          /\ last' = IF r.err # NoError
                     THEN Raised("revokeUserSession",
                                 "Failed to revoke user session", r.err, {})
                     ELSE Returned("revokeUserSession",
                            {"Revoke user session request processed."}, NULL)
          /\ activeSessionKeypair' =
                 IF deactivates THEN NULL ELSE activeSessionKeypair
          /\ wallet' = IF deactivates THEN NULL ELSE wallet
    /\ input' = [given |-> TRUE, op |-> "revokeUserSession",
                 encrypted |-> encrypted]
    /\ calls' = <<>>
    /\ UNCHANGED <<userWalletPublicKey, primary, sessionFor, blueprint,
                   entities, pc, pending, systems, queries, held, chain, now>>

(***************************************************************************)
(* processComponent, called by the game.                                   *)
(***************************************************************************)
ProcessComponent(entityId, componentType, data) ==
    /\ pc = "idle"
    /\ LET r == processComponent(blueprint, entities, entityId,
                                 componentType, data)
       IN /\ entities' = r.entities
          /\ last' = IF r.err # NoError
                     THEN Raised("processComponent", r.err, NoError, r.warns)
                     ELSE Returned("processComponent", r.warns, NULL)
    /\ calls' = <<>>
    /\ UNCHANGED <<walletVars, blueprint, pc, pending>>
    /\ UNCHANGED otherVars

(***************************************************************************)
(* createEntity.                                                           *)
(***************************************************************************)
\* Keypair.generate(): a key no entity has; ids being opaque, the first one
FreshIds == { i \in 1..MaxEntities : ~HasEntity(entities, IdOf(i)) }
FreshId == IdOf(CHOOSE i \in FreshIds : \A j \in FreshIds : i <= j)

\* (mutant) the components are validated before the World creates the
\* entity: a rejected component leaves the World as it was
createEntity_validatesFirst(components) ==
    /\ pc = "idle"
    /\ IF getActivePayer = NULL
       THEN /\ last' = Raised("createEntity", NoPayerMsg, NoError, {})
            /\ calls' = <<>>
            /\ UNCHANGED <<entities, pc, pending>>
       ELSE /\ FreshIds # {}
            /\ LET entityId == FreshId
                   r == ProcessEntries(
                            blueprint,
                            WorldCreateEntity(entities, entityId, entityId),
                            entityId, components, 1)
               IN /\ entities' = IF r.err # NoError THEN entities
                                ELSE r.entities
                  /\ IF r.err # NoError
                     THEN /\ last' = Raised("createEntity", r.err, NoError,
                                            r.warns)
                          /\ calls' = <<>>
                          /\ UNCHANGED <<pc, pending>>
                     ELSE /\ calls' =
                                <<StorageCall(
                                      "createEntity", NULL,
                                      serializeEntityData(
                                          getEntity(r.entities, entityId)),
                                      getActivePayer)>>
                          /\ pc' = "createEntity"
                          /\ pending' = [op |-> "createEntity",
                                         components |-> components,
                                         payer |-> getActivePayer,
                                         entityId |-> entityId]
                          /\ last' = Awaiting("createEntity", r.warns)
    /\ UNCHANGED <<walletVars, blueprint>>
    /\ UNCHANGED otherVars

\* RushSDK.ts 248-269: up to the await of storage.createEntity
createEntity(components) ==
    /\ pc = "idle"
    /\ IF getActivePayer = NULL
       THEN /\ last' = Raised("createEntity", NoPayerMsg, NoError, {})
            /\ calls' = <<>>
            /\ UNCHANGED <<entities, pc, pending>>
       ELSE /\ FreshIds # {}
            /\ LET entityId == FreshId
                   r == ProcessEntries(
                            blueprint,
                            WorldCreateEntity(entities, entityId, entityId),
                            entityId, components, 1)
               IN /\ entities' = r.entities
                  /\ IF r.err # NoError
                     THEN /\ last' = Raised("createEntity", r.err, NoError,
                                            r.warns)
                          /\ calls' = <<>>
                          /\ UNCHANGED <<pc, pending>>
                     ELSE /\ calls' =
                                <<StorageCall(
                                      "createEntity", NULL,
                                      serializeEntityData(
                                          getEntity(r.entities, entityId)),
                                      getActivePayer)>>
                          /\ pc' = "createEntity"
                          /\ pending' = [op |-> "createEntity",
                                         components |-> components,
                                         payer |-> getActivePayer,
                                         entityId |-> entityId]
                          /\ last' = Awaiting("createEntity", r.warns)
    /\ UNCHANGED <<walletVars, blueprint>>
    /\ UNCHANGED otherVars

\* World.removeEntity; removeEntityFromQueries walks the query cache, which
\* nothing fills
WorldRemoveEntity(ents, id) == SelectSeq(ents, LAMBDA e : e.id # id)

\* (mutant) a failed storage call takes the local entity back out
createEntityAnswered_rollsBack(ok) ==
    /\ pc = "createEntity"
    /\ calls' = Answered(calls, IF ok THEN "ok" ELSE "failed")
    /\ last' = IF ok
               THEN Returned("createEntity", last.warns, pending.entityId)
               ELSE Raised("createEntity",
                           CreateFailedMsg(pending.entityId),
                           StorageFailure, last.warns)
    /\ entities' = IF ok THEN entities
                   ELSE WorldRemoveEntity(entities, pending.entityId)
    /\ pc' = "idle"
    /\ pending' = NoPending
    /\ UNCHANGED <<walletVars, blueprint>>
    /\ UNCHANGED otherVars

\* RushSDK.ts 269-275: storage.createEntity resolves or rejects
createEntityAnswered(ok) ==
    /\ pc = "createEntity"
    /\ calls' = Answered(calls, IF ok THEN "ok" ELSE "failed")
    /\ last' = IF ok
               THEN Returned("createEntity", last.warns, pending.entityId)
               ELSE Raised("createEntity",
                           CreateFailedMsg(pending.entityId),
                           StorageFailure, last.warns)
    /\ pc' = "idle"
    /\ pending' = NoPending
    /\ UNCHANGED <<walletVars, blueprint, entities>>
    /\ UNCHANGED otherVars

(***************************************************************************)
(* saveToChain.                                                            *)
(***************************************************************************)
\* RushSDK.ts 482-496: saveEntityToChain up to its await; the entity is
\* serialized as it is when its turn comes
SubmitEntity(entityId) ==
    StorageCall("setEntityDataById", entityId,
                serializeEntityData(getEntity(entities, entityId)),
                getActivePayer)

\* entitiesToSave holds the Entity objects themselves, here the ids under
\* which the World holds them; `detached` holds, by position in the list,
\* the objects the World has let go of since (removed, or replaced under
\* their id)
HeldEntity(p) ==
    IF p \in DOMAIN pending.detached THEN pending.detached[p]
    ELSE getEntity(entities, pending.entitiesToSave[p])

\* (mutant) the entity to submit is looked up in the World by its id
SubmitHeld_byId(p) ==
    LET id == pending.entitiesToSave[p]
        e == IF HasEntity(entities, id) THEN getEntity(entities, id)
             ELSE HeldEntity(p)
    IN StorageCall("setEntityDataById", id, serializeEntityData(e),
                   getActivePayer)

\* RushSDK.ts 521-522, 482-496: saveEntityToChain of the p-th entity of the
\* list up to its await
SubmitHeld(p) ==
    StorageCall("setEntityDataById", HeldEntity(p).id,
                serializeEntityData(HeldEntity(p)), getActivePayer)

\* RushSDK.ts 504-522: up to the await of the first saveEntityToChain
saveToChain ==
    /\ pc = "idle"
    /\ IF getActivePayer = NULL
       THEN /\ last' = Raised("saveToChain", NoPayerMsg, NoError, {})
            /\ calls' = <<>>
            /\ UNCHANGED <<pc, pending>>
       ELSE LET all == query(entities, <<>>)
                entitiesToSave == [i \in 1..Len(all) |-> all[i].id]
            IN IF Len(entitiesToSave) = 0
               THEN /\ last' = Returned("saveToChain", {}, NULL)
                    /\ calls' = <<>>
                    /\ UNCHANGED <<pc, pending>>
               ELSE /\ calls' = <<SubmitEntity(entitiesToSave[1])>>
                    /\ pc' = "saveToChain"
                    /\ pending' = [op |-> "saveToChain",
                                   entitiesToSave |-> entitiesToSave,
                                   detached |-> <<>>,
                                   i |-> 1]
                    /\ last' = Awaiting("saveToChain", {})
    /\ UNCHANGED <<walletVars, blueprint, entities>>
    /\ UNCHANGED otherVars

\* (mutant) a rejected setEntityDataById is logged and the loop goes on
saveToChainAnswered_skipsFailed(ok) ==
    /\ pc = "saveToChain"
    /\ IF pending.i = Len(pending.entitiesToSave)
       THEN /\ calls' = Answered(calls, IF ok THEN "ok" ELSE "failed")
            /\ last' = Returned("saveToChain", {}, NULL)
            /\ pc' = "idle"
            /\ pending' = NoPending
       ELSE /\ calls' = Append(Answered(calls,
                                        IF ok THEN "ok" ELSE "failed"),
                               SubmitHeld(pending.i + 1))
            /\ pending' = [pending EXCEPT !.i = @ + 1]
            /\ UNCHANGED <<pc, last>>
    /\ UNCHANGED <<walletVars, blueprint, entities>>
    /\ UNCHANGED otherVars

\* RushSDK.ts 496-527: setEntityDataById resolves or rejects; on success the
\* loop goes on to the next entity
saveToChainAnswered(ok) ==
    /\ pc = "saveToChain"
    /\ IF ~ok
       THEN /\ calls' = Answered(calls, "failed")
            /\ last' = Raised("saveToChain", SaveFailedMsg,
                              SaveEntityFailedMsg(
                                  pending.entitiesToSave[pending.i]),
                              {})
            /\ pc' = "idle"
            /\ pending' = NoPending
       ELSE IF pending.i = Len(pending.entitiesToSave)
       THEN /\ calls' = Answered(calls, "ok")
            /\ last' = Returned("saveToChain", {}, NULL)
            /\ pc' = "idle"
            /\ pending' = NoPending
       ELSE IF getActivePayer = NULL
       THEN /\ calls' = Answered(calls, "ok")
            /\ last' = Raised("saveToChain", SaveFailedMsg, NoPayerMsg, {})
            /\ pc' = "idle"
            /\ pending' = NoPending
       ELSE /\ calls' = Append(Answered(calls, "ok"),
                               SubmitHeld(pending.i + 1))
            /\ pending' = [pending EXCEPT !.i = @ + 1]
            /\ UNCHANGED <<pc, last>>
    /\ UNCHANGED <<walletVars, blueprint, entities>>
    /\ UNCHANGED otherVars

(***************************************************************************)
(* syncWithChain.                                                          *)
(***************************************************************************)
ChainRecord(id, owner, components) ==
    JsonText(JObj([id |-> id, owner |-> owner, components |-> components]))

\* The accounts getProgramAccounts may return
Accounts ==
    { [pubkey |-> "A1", data |-> Garbage],
      [pubkey |-> "A2",
       data |-> ChainRecord(JStr(IdOf(1)), JStr("W1"),
                            JObj([Position |-> PosXY]))],
      [pubkey |-> "A3",
       data |-> ChainRecord(JStr(IdOf(1)), JStr("W1"),
                            JObj([position |-> PosXY]))],
      [pubkey |-> "A4",
       data |-> ChainRecord(JStr(IdOf(2)), JStr("W2"), JObj(<<>>))],
      [pubkey |-> "A5",
       data |-> ChainRecord(JStr(IdOf(2)), JStr("W2"), JNull)],
      [pubkey |-> "A6",
       data |-> ChainRecord(JStr(IdOf(2)), JStr("not-base58"),
                            JObj([Position |-> PosXYExtra]))],
      [pubkey |-> "A7",
       data |-> JsonText(JObj([owner |-> JStr("W1"),
                               components |-> JObj(<<>>)]))] }

AccountLists == UNION { [1..n -> Accounts] : n \in 0..MaxAccounts }

\* RushSDK.ts 443-457: up to the await of getProgramAccounts
syncWithChain ==
    /\ pc = "idle"
    /\ IF wallet = NULL
       THEN /\ last' = Raised("syncWithChain", WalletNotSetMsg, NoError, {})
            /\ calls' = <<>>
            /\ UNCHANGED <<pc, pending>>
       ELSE /\ calls' = <<StorageCall("getProgramAccounts", NULL, Garbage,
                                      NULL)>>
            /\ pc' = "syncWithChain"
            /\ pending' = [op |-> "syncWithChain"]
            /\ last' = Awaiting("syncWithChain", {})
    /\ UNCHANGED <<walletVars, blueprint, entities>>
    /\ UNCHANGED otherVars

\* RushSDK.ts 457-479: getProgramAccounts resolves with accounts
syncWithChainFetched(accounts) ==
    /\ pc = "syncWithChain"
    /\ LET r == SyncAccounts(blueprint, entities, accounts, 1) IN
       /\ entities' = r.entities
       /\ last' = IF r.err # NoError
                  THEN Raised("syncWithChain", SyncFailedMsg, r.err, r.warns)
                  ELSE Returned("syncWithChain", r.warns, NULL)
    /\ calls' = Answered(calls, "ok")
    /\ pc' = "idle"
    /\ pending' = NoPending
    /\ UNCHANGED <<walletVars, blueprint>>
    /\ UNCHANGED otherVars

\* RushSDK.ts 457, 477-479: getProgramAccounts rejects
syncWithChainFetchFailed ==
    /\ pc = "syncWithChain"
    /\ last' = Raised("syncWithChain", SyncFailedMsg, StorageFailure, {})
    /\ calls' = Answered(calls, "failed")
    /\ pc' = "idle"
    /\ pending' = NoPending
    /\ UNCHANGED <<walletVars, blueprint, entities>>
    /\ UNCHANGED otherVars

(***************************************************************************)
(* The facade.                                                             *)
(***************************************************************************)
\* The game builds its World and saves it, paying with a primary wallet
Next ==
    \/ \E w \in Keypairs : setPrimaryWallet(w)
    \/ \E id \in EntityIds, c \in ComponentInputs :
           ProcessComponent(id, c[1], c[2])
    \/ \E cs \in ComponentsArgs : createEntity(cs)
    \/ \E ok \in BOOLEAN : createEntityAnswered(ok)
    \/ saveToChain
    \/ \E ok \in BOOLEAN : saveToChainAnswered(ok)

Spec == Init /\ [][Next]_vars

\* The game creates entities and synchronizes its World with the chain
SyncComponentsArgs == { cs \in ComponentsArgs : Len(cs) <= 1 }

NextSync ==
    \/ \E w \in Keypairs : setPrimaryWallet(w)
    \/ \E cs \in SyncComponentsArgs : createEntity(cs)
    \/ \E ok \in BOOLEAN : createEntityAnswered(ok)
    \/ syncWithChain
    \/ \E accounts \in AccountLists : syncWithChainFetched(accounts)
    \/ syncWithChainFetchFailed

SpecSync == Init /\ [][NextSync]_vars

\* Wallets and sessions come and go between the payer-requiring operations
SessionComponentsArgs == { cs \in ComponentsArgs : Len(cs) = 0 }
SessionAccountLists == { as \in AccountLists : Len(as) = 0 }

\* The handle of the session being revoked
SessionHandles == {[iv |-> "iv1", key |-> "user1", secret |-> "W2"]}

NextSession ==
    \/ \E w \in Keypairs : setPrimaryWallet(w)
    \/ \E w \in Keypairs : setWallet(w)
    \/ \E k \in Keypairs : activateSessionKeypair(k)
    \/ deactivateSession
    \/ \E e \in SessionHandles, threw, erased \in BOOLEAN :
           RevokeUserSession(e, threw, erased)
    \/ \E cs \in SessionComponentsArgs : createEntity(cs)
    \/ \E ok \in BOOLEAN : createEntityAnswered(ok)
    \/ saveToChain
    \/ \E ok \in BOOLEAN : saveToChainAnswered(ok)
    \/ syncWithChain
    \/ \E accounts \in SessionAccountLists : syncWithChainFetched(accounts)
    \/ syncWithChainFetchFailed

SpecSession == Init /\ [][NextSession]_vars

(***************************************************************************)
(* Claims about payer resolution, checked under SpecSession.               *)
(***************************************************************************)
\* C1: once a primary wallet W1 is set and a session keypair W2 is
\* activated, the payer resolved for createEntity/saveToChain is W2; once
\* that session is deactivated, the resolved payer is W1 again.
C1_PayerFallsBackToPrimary ==
    primary # NULL /\ sessionFor # NULL /\ sessionFor # primary =>
        IF activeSessionKeypair # NULL
        THEN getActivePayer = sessionFor
        ELSE getActivePayer = primary

\* C8: with no primary wallet and no session keypair set, createEntity and
\* saveToChain fail with the no-payer message before any effect: the World
\* keeps its entities and no storage operation is invoked.
C8_NoPayerFailsBeforeAnyEffect ==
    [][ ( /\ wallet = NULL
          /\ activeSessionKeypair = NULL
          /\ \/ \E cs \in ComponentsArgs : createEntity(cs)
             \/ saveToChain )
        => ( /\ last'.result = "error"
             /\ last'.msg =
                  "No active payer wallet found. Set a primary wallet or create and activate a session."
             /\ entities' = entities
             /\ calls' = <<>>
             /\ pc' = "idle" ) ]_vars

\* A facade on which neither was ever set has just refused createEntity
C8_Witness ==
    /\ primary = NULL
    /\ sessionFor = NULL
    /\ last.op = "createEntity"
    /\ last.result = "error"
    /\ last.msg = NoPayerMsg

\* C9: right after setPrimaryWallet(W) or setWallet(W) no session keypair is
\* active and the payer resolved for createEntity/saveToChain is W.
C9_SetWalletClearsSession ==
    last.op \in {"setPrimaryWallet", "setWallet"} =>
        /\ activeSessionKeypair = NULL
        /\ primary \in Keypairs
        /\ getActivePayer = primary

\* setPrimaryWallet has just replaced a wallet that a session had taken over
C9_Witness ==
    /\ last.op = "setPrimaryWallet"
    /\ getActivePayer = "W2"
    /\ entities # <<>>

\* C10: whenever no primary wallet has been set, syncWithChain fails with
\* 'Wallet not set. Cannot sync with chain.' before it fetches any account,
\* also when a session keypair has been activated.
C10_SyncRequiresPrimaryWallet ==
    last.op = "syncWithChain" /\ primary = NULL =>
        /\ last.result = "error"
        /\ last.msg = "Wallet not set. Cannot sync with chain."
        /\ calls = <<>>

(***************************************************************************)
(* Claims about entity creation, component processing and saving, checked  *)
(* under Spec.                                                             *)
(***************************************************************************)
\* The component mapping the entries of a components argument build
AsMapping(components) ==
    [k \in { components[i][1] : i \in 1..Len(components) } |->
        components[CHOOSE i \in 1..Len(components) : components[i][1] = k][2]]

\* C3: when the storage contract's createEntity fails during
\* RushSDK.createEntity, the call raises an SDKError and the new entity stays
\* registered in the World with every supplied component attached.
C3_NoRollbackOnChainFailure ==
    [][ createEntityAnswered(FALSE)
        => ( /\ last'.op = "createEntity"
             /\ last'.result = "error"
             /\ last'.cause = StorageFailure
             /\ HasEntity(entities', pending.entityId)
             /\ getEntity(entities', pending.entityId).components
                  = AsMapping(pending.components)
             /\ Len(entities') = Len(entities) ) ]_vars

\* createEntity was refused by the chain and its entity carries components
C3_Witness ==
    /\ last.op = "createEntity"
    /\ last.result = "error"
    /\ last.cause = StorageFailure
    /\ \E i \in 1..Len(entities) :
          /\ last.msg = CreateFailedMsg(entities[i].id)
          /\ DOMAIN entities[i].components = {"Position", "position"}

\* C4: saveToChain submits one setEntityDataById call per World entity, in
\* World insertion order, each only after the one before it has completed;
\* the first failing submission ends the run with a wrapped SDKError, the
\* entities before it stay submitted and none after it is submitted.
C4_SaveIsSequentialAndAborts ==
    last.op = "saveToChain" /\ last.msg # NoPayerMsg =>
        /\ Len(calls) <= Len(entities)
        /\ \A i \in 1..Len(calls) :
              /\ calls[i].op = "setEntityDataById"
              /\ calls[i].id = entities[i].id
              /\ i < Len(calls) => calls[i].status = "ok"
        /\ last.result = "pending" =>
              Len(calls) > 0 /\ calls[Len(calls)].status = "pending"
        /\ last.result = "ok" =>
              /\ Len(calls) = Len(entities)
              /\ \A i \in 1..Len(calls) : calls[i].status = "ok"
        /\ last.result = "error" =>
              /\ Len(calls) > 0
              /\ calls[Len(calls)].status = "failed"
              /\ last.msg = "Failed to save world state to chain"
              /\ last.cause = SaveEntityFailedMsg(calls[Len(calls)].id)

\* The first of several entities failed: nothing after it was submitted
C4_Witness ==
    /\ last.op = "saveToChain"
    /\ last.result = "error"
    /\ Len(entities) >= 2
    /\ Len(calls) = 1
    /\ calls[1].status = "failed"

\* The blueprint lets the component through: there is none, it declares no
\* componentSchemas, or it declares the type and the data fits its schema
BlueprintAccepts(bp, componentType, data) ==
    \/ ~bp.loaded
    \/ ~Has(bp, "componentSchemas")
    \/ /\ componentType \in DOMAIN bp.componentSchemas
       /\ validateComponentDataAgainstSchema(
              data, bp.componentSchemas[componentType], componentType).err
            = NoError

ExtraWarningOfPosition ==
    "Warning: Component \"Position\" has extra property \"extra\" not defined in blueprint schema."

IsEntityRecord(account) ==
    /\ account.data.parses
    /\ account.data.json.t = "object"
    /\ Field(account.data.json, "id").t = "string"
    /\ Field(account.data.json, "owner").t = "string"
    /\ IsAddress(Field(account.data.json, "owner").s)
    /\ Field(account.data.json, "components").t = "object"

RecordId(account) == account.data.json.o.id.s
RecordComponents(account) == account.data.json.o.components.o

\* The account's bytes decode: deserializeEntityData returns a record
Decodes(account) == deserializeEntityData(account.data).ok

\* No two decoded records of the list carry the same id
DistinctRecordIds(accounts) ==
    \A i, j \in 1..Len(accounts) :
        i # j /\ Decodes(accounts[i]) /\ Decodes(accounts[j])
        => RecordId(accounts[i]) # RecordId(accounts[j])

\* C2: after syncWithChain completes, the local entity of every fetched
\* account that decodes to an entity record has a component mapping equal to
\* the record's components: a local component whose name the chain record
\* lacks is gone, whether the entity was known or newly created.
C2_SyncOverwritesComponents ==
    [][ \A accounts \in AccountLists :
          ( /\ syncWithChainFetched(accounts)
            /\ last'.result = "ok"
            /\ DistinctRecordIds(accounts) )
          => \A i \in 1..Len(accounts) :
                Decodes(accounts[i])
                => /\ HasEntity(entities', RecordId(accounts[i]))
                   /\ getEntity(entities', RecordId(accounts[i])).components
                        = RecordComponents(accounts[i]) ]_vars

\* C5: in syncWithChain an account whose bytes are not an entity record is
\* logged and skipped: the entity records fetched with it are applied to the
\* World and syncWithChain completes without raising.
C5_UndecodableAccountIsSkipped ==
    [][ \A accounts \in AccountLists :
          ( /\ syncWithChainFetched(accounts)
            /\ \E i \in 1..Len(accounts) : ~IsEntityRecord(accounts[i])
            /\ \A i \in 1..Len(accounts) :
                  IsEntityRecord(accounts[i])
                  => \A k \in DOMAIN RecordComponents(accounts[i]) :
                        BlueprintAccepts(blueprint, k,
                                         RecordComponents(accounts[i])[k]) )
          => ( /\ last'.result = "ok"
               /\ \A i \in 1..Len(accounts) :
                     IsEntityRecord(accounts[i])
                     => HasEntity(entities', RecordId(accounts[i])) ) ]_vars

(***************************************************************************)
(* processComponent on declared, undeclared and inherited type names.      *)
(***************************************************************************)
\* [componentType, data] pairs: a declared name, a name that differs from
\* it in case, and a name every object inherits
TypeNameInputs ==
    { <<"Position", PosXY>>, <<"Position", PosX>>,
      <<"position", PosXY>>, <<"toString", PosXY>> }

NextComponent ==
    \/ \E w \in Keypairs : setPrimaryWallet(w)
    \/ \E cs \in SessionComponentsArgs : createEntity(cs)
    \/ \E ok \in BOOLEAN : createEntityAnswered(ok)
    \/ \E id \in EntityIds, c \in TypeNameInputs :
          ProcessComponent(id, c[1], c[2])

SpecComponent == Init /\ [][NextComponent]_vars

\* C11: with a blueprint that has componentSchemas, processComponent for a
\* component type componentSchemas does not declare, aimed at an entity of
\* the World, raises 'Component type
\* "<type>" is not defined in the blueprint's componentSchemas.' and leaves
\* every entity's component mapping unchanged.
C11_UndeclaredTypeIsRejected ==
    [][ \A id \in EntityIds, c \in TypeNameInputs :
          ( /\ ProcessComponent(id, c[1], c[2])
            /\ HasEntity(entities, id)
            /\ Has(blueprint, "componentSchemas")
            /\ c[1] \notin DOMAIN blueprint.componentSchemas )
          => ( /\ last'.result = "error"
               /\ last'.msg = NotDefinedMsg(c[1])
               /\ entities' = entities ) ]_vars

(***************************************************************************)
(* The World and its entities, called by the game directly.                *)
(***************************************************************************)
\* World.updateQueries: a cache entry is a key, the list of the names it
\* was split into, and the ids of the entities cached under it
updateQueries(qs, entity) ==
    [k \in DOMAIN qs |->
        IF \A i \in 1..Len(k) : hasComponent(entity, k[i])
        THEN Append(qs[k], entity.id)
        ELSE qs[k]]

\* World.removeEntityFromQueries: indexOf and splice of each cached list
removeEntityFromQueries(qs, entity) ==
    [k \in DOMAIN qs |->
        IF \E i \in 1..Len(qs[k]) : qs[k][i] = entity.id
        THEN LET at == CHOOSE i \in 1..Len(qs[k]) :
                          /\ qs[k][i] = entity.id
                          /\ \A j \in 1..(i - 1) : qs[k][j] # entity.id
             IN SubSeq(qs[k], 1, at - 1) \o SubSeq(qs[k], at + 1, Len(qs[k]))
        ELSE qs[k]]

\* The ids of a list of entities, in its order
IdsOf(ents) == [i \in 1..Len(ents) |-> ents[i].id]

\* World.createEntity
WorldCreate(id, publicKey) ==
    /\ pc = "idle"
    /\ entities' = WorldCreateEntity(entities, id, publicKey)
    /\ queries' = updateQueries(queries, NewEntity(id, publicKey))
    /\ last' = Returned("World.createEntity", {}, id)
    /\ calls' = <<>>
    /\ UNCHANGED <<walletVars, blueprint, pc, pending, systems, held, input,
                   outerVars>>

\* (mutant) removeEntity answers true for an id the World does not hold
WorldRemove_alwaysTrue(id) ==
    /\ pc = "idle"
    /\ IF HasEntity(entities, id)
       THEN /\ entities' = WorldRemoveEntity(entities, id)
            /\ queries' = removeEntityFromQueries(queries,
                                                  getEntity(entities, id))
            /\ last' = Returned("World.removeEntity", {}, JBool(TRUE))
       ELSE /\ last' = Returned("World.removeEntity", {}, JBool(TRUE))
            /\ UNCHANGED <<entities, queries>>
    /\ calls' = <<>>
    /\ UNCHANGED <<walletVars, blueprint, pc, pending, systems, held, input,
                   outerVars>>

\* World.removeEntity
WorldRemove(id) ==
    /\ pc = "idle"
    /\ IF HasEntity(entities, id)
       THEN /\ entities' = WorldRemoveEntity(entities, id)
            /\ queries' = removeEntityFromQueries(queries,
                                                  getEntity(entities, id))
            /\ last' = Returned("World.removeEntity", {}, JBool(TRUE))
       ELSE /\ last' = Returned("World.removeEntity", {}, JBool(FALSE))
            /\ UNCHANGED <<entities, queries>>
    /\ calls' = <<>>
    /\ UNCHANGED <<walletVars, blueprint, pc, pending, systems, held, input,
                   outerVars>>

\* (mutant) query answers every entity that carries some requested name
WorldQuery_some(components) ==
    /\ pc = "idle"
    /\ last' = Returned("World.query", {},
                        IdsOf(SelectSeq(entities, LAMBDA e :
                            \E i \in 1..Len(components) :
                                hasComponent(e, components[i]))))
    /\ calls' = <<>>
    /\ UNCHANGED <<walletVars, blueprint, entities, pc, pending, otherVars>>

\* (mutant) query stores its result in the cache under the names queried
WorldQuery_caches(components) ==
    /\ pc = "idle"
    /\ last' = Returned("World.query", {}, IdsOf(query(entities, components)))
    /\ queries' = (components :> IdsOf(query(entities, components)))
                      @@ queries
    /\ calls' = <<>>
    /\ UNCHANGED <<walletVars, blueprint, entities, pc, pending, systems,
                   held, input, outerVars>>

\* World.query(components): the entities are returned by reference, here by
\* id.  The query key it computes is not used and nothing is cached.
WorldQuery(components) ==
    /\ pc = "idle"
    /\ last' = Returned("World.query", {}, IdsOf(query(entities, components)))
    /\ calls' = <<>>
    /\ UNCHANGED <<walletVars, blueprint, entities, pc, pending, otherVars>>

\* world.getEntity(id).addComponent(componentType, data)
EntityAddComponent(id, componentType, data) ==
    /\ pc = "idle"
    /\ HasEntity(entities, id)
    /\ entities' = [entities EXCEPT ![IndexOf(entities, id)] =
                       addComponent(@, componentType, data)]
    /\ last' = Returned("Entity.addComponent", {}, NULL)
    /\ calls' = <<>>
    /\ UNCHANGED <<walletVars, blueprint, pc, pending, otherVars>>

\* Entity.getComponent: undefined for a name the entity does not carry
getComponent(e, componentType) ==
    IF componentType \in DOMAIN e.components
    THEN e.components[componentType]
    ELSE JUndef

\* Entity.removeComponent: Map.delete, which answers whether the key was there
removeComponent(e, componentType) ==
    [entity |-> [e EXCEPT !.components =
                    [k \in DOMAIN e.components \ {componentType} |->
                        e.components[k]]],
     ret |-> componentType \in DOMAIN e.components]

\* (mutant) removeComponent answers true whatever it found
EntityRemoveComponent_alwaysTrue(id, componentType) ==
    /\ pc = "idle"
    /\ HasEntity(entities, id)
    /\ LET r == removeComponent(getEntity(entities, id), componentType) IN
       /\ entities' = [entities EXCEPT ![IndexOf(entities, id)] = r.entity]
       /\ last' = Returned("Entity.removeComponent", {}, JBool(TRUE))
    /\ calls' = <<>>
    /\ UNCHANGED <<walletVars, blueprint, pc, pending, otherVars>>

\* world.getEntity(id).removeComponent(componentType)
EntityRemoveComponent(id, componentType) ==
    /\ pc = "idle"
    /\ HasEntity(entities, id)
    /\ LET r == removeComponent(getEntity(entities, id), componentType) IN
       /\ entities' = [entities EXCEPT ![IndexOf(entities, id)] = r.entity]
       /\ last' = Returned("Entity.removeComponent", {}, JBool(r.ret))
    /\ calls' = <<>>
    /\ UNCHANGED <<walletVars, blueprint, pc, pending, otherVars>>

(***************************************************************************)
(* SpecWorld: entities created, removed, given components and queried.     *)
(***************************************************************************)
\* The component names of the World's test suite; no entity is ever given
\* the last one
QueryNames == {"position", "velocity", "renderable"}
WorldComponentInputs ==
    { <<"position", JObj([x |-> JNum(0), y |-> JNum(0)])>>,
      <<"velocity", JObj([dx |-> JNum(1), dy |-> JNum(0)])>> }

\* The lists handed to World.query: any order, repeats included
QueryLists == UNION { [1..n -> QueryNames] : n \in 0..2 }

NextWorld ==
    \/ \E id \in EntityIds : WorldCreate(id, id)
    \/ \E id \in EntityIds : WorldRemove(id)
    \/ \E names \in QueryLists : WorldQuery(names)
    \/ \E id \in EntityIds, c \in WorldComponentInputs :
          EntityAddComponent(id, c[1], c[2])
    \/ \E id \in EntityIds, c \in WorldComponentInputs :
          EntityRemoveComponent(id, c[1])

SpecWorld == Init /\ [][NextWorld]_vars

\* The names of a list, as a set
NamesOf(names) == { names[i] : i \in 1..Len(names) }

\* C12: World.query(names) returns exactly the entities now in the World
\* whose component names include every requested name, each once and in
\* entity insertion order; an empty list returns every entity and a name no
\* entity carries returns none.
C12_QueryIsSupersetScan ==
    [][ \A names \in QueryLists :
          WorldQuery(names)
          => LET r == last'.ret IN
             /\ { r[i] : i \in 1..Len(r) }
                  = { entities[i].id : i \in { j \in 1..Len(entities) :
                        NamesOf(names) \subseteq DOMAIN entities[j].components } }
             /\ \A i, j \in 1..Len(r) :
                   i < j => IndexOf(entities, r[i]) < IndexOf(entities, r[j])
             /\ (names = <<>> => r = IdsOf(entities))
             /\ ( (\E n \in NamesOf(names) : \A i \in 1..Len(entities) :
                      n \notin DOMAIN entities[i].components)
                  => r = <<>> ) ]_vars

\* a query that matched the second entity created and not the first
C12_Witness ==
    /\ last.op = "World.query"
    /\ Len(entities) = 2
    /\ last.ret = <<entities[2].id>>

\* C13: removeEntity(id) of an entity of the World returns true, after which
\* getEntity(id) is absent and neither a query nor the query cache holds the
\* entity; removeEntity of an id the World does not hold returns false and
\* leaves the entities, the systems and the query cache as they were.
C13_RemoveEntity ==
    [][ \A id \in EntityIds :
          WorldRemove(id)
          => IF HasEntity(entities, id)
             THEN /\ last'.ret = JBool(TRUE)
                  /\ ~HasEntity(entities', id)
                  /\ \A names \in QueryLists :
                        \A i \in 1..Len(query(entities', names)) :
                            query(entities', names)[i].id # id
                  /\ \A k \in DOMAIN queries' :
                        \A i \in 1..Len(queries'[k]) : queries'[k][i] # id
             ELSE /\ last'.ret = JBool(FALSE)
                  /\ UNCHANGED <<entities, systems, queries>> ]_vars

\* an entity that carried a component was removed while another one stays
C13_Witness ==
    /\ last.op = "World.removeEntity"
    /\ last.ret = JBool(TRUE)
    /\ Len(entities) = 1
    /\ "position" \in DOMAIN entities[1].components

(***************************************************************************)
(* Systems: SystemPort implementations registered with the World.          *)
(* MockSystem (of the World's test suite) queries the World it is passed   *)
(* and keeps what it saw; MovementSystem moves every entity that has a     *)
(* position and a velocity.                                                *)
(***************************************************************************)
MockSystem(componentsRequired) ==
    [kind |-> "MockSystem", componentsRequired |-> componentsRequired]
MovementSystem == [kind |-> "MovementSystem"]

\* MovementSystem.update, the body of its loop: position.x += velocity.x *
\* deltaTime (y and z alike) on the object the entity holds, which is then
\* added again.  For a position and a velocity with numeric x, y, z.
Move(e, deltaTime) ==
    LET position == getComponent(e, "position")
        velocity == getComponent(e, "velocity")
    IN IF Truthy(position) /\ Truthy(velocity)
       THEN addComponent(e, "position",
              JObj([x |-> JNum(position.o.x.n + velocity.o.x.n * deltaTime),
                    y |-> JNum(position.o.y.n + velocity.o.y.n * deltaTime),
                    z |-> JNum(position.o.z.n + velocity.o.z.n * deltaTime)]))
       ELSE e

\* system.update(deltaTime, world): the World's entities after it
SystemUpdate(system, deltaTime, ents) ==
    IF system.kind = "MovementSystem"
    THEN [i \in 1..Len(ents) |->
            IF hasComponent(ents[i], "position")
               /\ hasComponent(ents[i], "velocity")
            THEN Move(ents[i], deltaTime)
            ELSE ents[i]]
    ELSE ents

\* What one invocation was given and, for a MockSystem, what it kept:
\* lastDeltaTime and entitiesProcessed, the entities as they were then
Invocation(system, deltaTime, ents) ==
    [system |-> system, deltaTime |-> deltaTime, world |-> ents,
     entitiesProcessed |->
        IF system.kind = "MockSystem"
        THEN query(ents, system.componentsRequired)
        ELSE <<>>]

\* World.update: for (const system of this.systems) system.update(deltaTime,
\* this), from the i-th system on
RECURSIVE RunSystems(_, _, _, _)
RunSystems(syss, deltaTime, ents, i) ==
    IF i > Len(syss) THEN [entities |-> ents, log |-> <<>>]
    ELSE LET rest == RunSystems(syss, deltaTime,
                                SystemUpdate(syss[i], deltaTime, ents),
                                i + 1)
         IN [entities |-> rest.entities,
             log |-> <<Invocation(syss[i], deltaTime, ents)>> \o rest.log]

\* World.addSystem
WorldAddSystem(system) ==
    /\ pc = "idle"
    /\ Len(systems) < MaxSystems
    /\ systems' = Append(systems, system)
    /\ last' = Returned("World.addSystem", {}, NULL)
    /\ calls' = <<>>
    /\ UNCHANGED <<walletVars, blueprint, entities, pc, pending, queries,
                   held, input, outerVars>>

\* (mutant) the systems are invoked last registered first
WorldUpdate_reversed(deltaTime) ==
    /\ pc = "idle"
    /\ \A i \in 1..Len(entities) :
          hasComponent(entities[i], "position")
          => getComponent(entities[i], "position").o.x.n <= MaxCoord
    /\ LET r == RunSystems([i \in 1..Len(systems) |->
                               systems[Len(systems) + 1 - i]],
                           deltaTime, entities, 1) IN
       /\ entities' = r.entities
       /\ last' = Returned("World.update", {}, r.log)
    /\ calls' = <<>>
    /\ UNCHANGED <<walletVars, blueprint, pc, pending, otherVars>>

\* World.update
WorldUpdate(deltaTime) ==
    /\ pc = "idle"
    /\ \A i \in 1..Len(entities) :
          hasComponent(entities[i], "position")
          => getComponent(entities[i], "position").o.x.n <= MaxCoord
    /\ LET r == RunSystems(systems, deltaTime, entities, 1) IN
       /\ entities' = r.entities
       /\ last' = Returned("World.update", {}, r.log)
    /\ calls' = <<>>
    /\ UNCHANGED <<walletVars, blueprint, pc, pending, otherVars>>

(***************************************************************************)
(* SpecSystems: one entity, systems registered and ticked.                 *)
(***************************************************************************)
\* The one entity the systems and the entity operations are tried on
TestEntityIds == {IdOf(1)}
MovementInputs ==
    { <<"position", JObj([x |-> JNum(0), y |-> JNum(0), z |-> JNum(0)])>>,
      <<"velocity", JObj([x |-> JNum(1), y |-> JNum(0), z |-> JNum(0)])>> }
Systems == {MovementSystem, MockSystem(<<"position">>)}
DeltaTimes == {1, 2}

NextSystems ==
    \/ \E id \in TestEntityIds : WorldCreate(id, id)
    \/ \E id \in TestEntityIds, c \in MovementInputs :
          EntityAddComponent(id, c[1], c[2])
    \/ \E system \in Systems : WorldAddSystem(system)
    \/ \E deltaTime \in DeltaTimes : WorldUpdate(deltaTime)

SpecSystems == Init /\ [][NextSystems]_vars

\* C14: World.update(deltaTime) invokes each registered system once, in
\* registration order, with that deltaTime and with the World as the systems
\* invoked before it in the same call left it: a system's query returns the
\* entities with the components those systems gave them.
C14_UpdateRunsSystemsInOrder ==
    [][ \A deltaTime \in DeltaTimes :
          WorldUpdate(deltaTime)
          => LET log == last'.ret IN
             /\ Len(log) = Len(systems)
             /\ \A i \in 1..Len(log) :
                   /\ log[i].system = systems[i]
                   /\ log[i].deltaTime = deltaTime
                   /\ log[i].world =
                        IF i = 1 THEN entities
                        ELSE SystemUpdate(systems[i - 1], deltaTime,
                                          log[i - 1].world)
                   /\ log[i].system.kind = "MockSystem"
                      => log[i].entitiesProcessed
                           = query(log[i].world,
                                   log[i].system.componentsRequired)
             /\ entities' =
                  IF Len(log) = 0 THEN entities
                  ELSE SystemUpdate(systems[Len(log)], deltaTime,
                                    log[Len(log)].world) ]_vars

\* a tick in which a MockSystem registered after a MovementSystem saw the
\* entity where the MovementSystem had moved it to
C14_Witness ==
    /\ last.op = "World.update"
    /\ Len(systems) = 2
    /\ systems[1] = MovementSystem
    /\ systems[2] = MockSystem(<<"position">>)
    /\ Len(last.ret[2].entitiesProcessed) = 1
    /\ getComponent(last.ret[2].entitiesProcessed[1], "position")
         # getComponent(last.ret[1].world[1], "position")

(***************************************************************************)
(* The Map Entity.getComponents() returns, in the hands of the caller.     *)
(* "shared" tells whether it is the Map the entity itself holds, so that a *)
(* change to it is a change to the entity's components.                    *)
(***************************************************************************)
\* (mutant) getComponents returns this.components itself
ComponentsMap_byReference(e) ==
    [of |-> e.id, shared |-> TRUE, map |-> e.components]

\* Entity.getComponents as its caller receives it: new Map(this.components)
ComponentsMap(e) == [of |-> e.id, shared |-> FALSE, map |-> getComponents(e)]

\* const components = world.getEntity(id).getComponents()
EntityGetComponents(id) ==
    /\ pc = "idle"
    /\ HasEntity(entities, id)
    /\ held' = ComponentsMap(getEntity(entities, id))
    /\ last' = Returned("Entity.getComponents", {}, NULL)
    /\ calls' = <<>>
    /\ UNCHANGED <<walletVars, blueprint, entities, pc, pending, systems,
                   queries, input, outerVars>>

\* The entities once the held Map's entries have become map: the Map of a
\* new Map(...) is nobody else's
WriteThrough(map) ==
    IF held.shared /\ HasEntity(entities, held.of)
    THEN [entities EXCEPT ![IndexOf(entities, held.of)].components = map]
    ELSE entities

\* components.set(key, value)
MapSet(key, value) ==
    /\ pc = "idle"
    /\ held # NoHeld
    /\ LET map == (key :> value)
                    @@ [k \in DOMAIN held.map \ {key} |-> held.map[k]] IN
       /\ held' = [held EXCEPT !.map = map]
       /\ entities' = WriteThrough(map)
    /\ last' = Returned("Map.set", {}, NULL)
    /\ calls' = <<>>
    /\ UNCHANGED <<walletVars, blueprint, pc, pending, systems, queries,
                   input, outerVars>>

\* components.delete(key)
MapDelete(key) ==
    /\ pc = "idle"
    /\ held # NoHeld
    /\ LET map == [k \in DOMAIN held.map \ {key} |-> held.map[k]] IN
       /\ held' = [held EXCEPT !.map = map]
       /\ entities' = WriteThrough(map)
    /\ last' = Returned("Map.delete", {}, JBool(key \in DOMAIN held.map))
    /\ calls' = <<>>
    /\ UNCHANGED <<walletVars, blueprint, pc, pending, systems, queries,
                   input, outerVars>>

\* components.clear()
MapClear ==
    /\ pc = "idle"
    /\ held # NoHeld
    /\ held' = [held EXCEPT !.map = <<>>]
    /\ entities' = WriteThrough(<<>>)
    /\ last' = Returned("Map.clear", {}, NULL)
    /\ calls' = <<>>
    /\ UNCHANGED <<walletVars, blueprint, pc, pending, systems, queries,
                   input, outerVars>>

(***************************************************************************)
(* SpecEntity: one entity, its components and the Map of them.             *)
(***************************************************************************)
EntityNames == {"test", "position"}
EntityValues ==
    {JObj([value |-> JNum(1)]), JObj([value |-> JNum(2)]), JUndef}

NextEntity ==
    \/ \E id \in TestEntityIds : WorldCreate(id, id)
    \/ \E id \in TestEntityIds, n \in EntityNames, v \in EntityValues :
          EntityAddComponent(id, n, v)
    \/ \E id \in TestEntityIds, n \in EntityNames :
          EntityRemoveComponent(id, n)
    \/ \E id \in TestEntityIds : EntityGetComponents(id)
    \/ \E n \in EntityNames, v \in EntityValues : MapSet(n, v)
    \/ \E n \in EntityNames : MapDelete(n)
    \/ MapClear

SpecEntity == Init /\ [][NextEntity]_vars

\* C15: after addComponent(name, v), getComponent(name) returns v and
\* hasComponent(name) is true, and every other name is as it was;
\* removeComponent(name) returns true exactly when the name was present,
\* after which hasComponent(name) is false and getComponent(name) is
\* undefined, and every other name is as it was.
C15_AddGetHasRemove ==
    [][ \A id \in TestEntityIds, n \in EntityNames :
          LET e == getEntity(entities, id)
              f == getEntity(entities', id)
              OthersKept ==
                  \A m \in EntityNames \ {n} :
                     /\ getComponent(f, m) = getComponent(e, m)
                     /\ hasComponent(f, m) = hasComponent(e, m)
          IN /\ \A v \in EntityValues :
                   EntityAddComponent(id, n, v)
                   => /\ getComponent(f, n) = v
                      /\ hasComponent(f, n)
                      /\ OthersKept
             /\ EntityRemoveComponent(id, n)
                => /\ last'.ret = JBool(hasComponent(e, n))
                   /\ ~hasComponent(f, n)
                   /\ getComponent(f, n) = JUndef
                   /\ OthersKept ]_vars

\* a component was removed from an entity that keeps another one
C15_Witness ==
    /\ last.op = "Entity.removeComponent"
    /\ last.ret = JBool(TRUE)
    /\ Len(entities) = 1
    /\ DOMAIN entities[1].components = {"position"}

\* C16: setting, deleting or clearing entries of the Map getComponents()
\* returned changes no entity: getComponent and hasComponent answer as
\* before for every name.
C16_GetComponentsIsACopy ==
    [][ ( \/ \E n \in EntityNames, v \in EntityValues : MapSet(n, v)
          \/ \E n \in EntityNames : MapDelete(n)
          \/ MapClear )
        => /\ Len(entities') = Len(entities)
           /\ \A i \in 1..Len(entities), n \in EntityNames :
                 /\ getComponent(entities'[i], n)
                      = getComponent(entities[i], n)
                 /\ hasComponent(entities'[i], n)
                      = hasComponent(entities[i], n) ]_vars

\* the returned Map was cleared while the entity still carries a component
C16_Witness ==
    /\ last.op = "Map.clear"
    /\ Len(entities) = 1
    /\ held.of = entities[1].id
    /\ held.map = <<>>
    /\ hasComponent(entities[1], "test")

(***************************************************************************)
(* SpecValidate: validateComponentDataAgainstSchema on its own.  The data, *)
(* the schema and the path of one call are drawn at the start; the call is *)
(* the only step.                                                          *)
(***************************************************************************)
ItemsOne(schema) == [list |-> FALSE, schemas |-> <<schema>>]
ItemsList(schemas) == [list |-> TRUE, schemas |-> schemas]

NumberSchema == [type |-> TypeName("number")]
StringSchema == [type |-> TypeName("string")]

ValidateData ==
    { JNum(0 - 1), JNum(0), JNum(3), JNum(4),
      JStr(""), JStr("abc"), JStr("abcd"),
      JBool(TRUE), JNull, JUndef, JFunc,
      JArr(<<>>), JArr(<<JNum(1), JNum(2)>>),
      JArr(<<JNum(1), JStr("a"), JBool(TRUE)>>),
      JArr(<<JStr("a"), JNum(4)>>),
      JObj(<<>>), PosXY, PosX, PosXYExtra,
      JObj([x |-> JStr("a")]),
      JObj([x |-> JStr("a"), y |-> JNum(2)]) }

TypeSchemas ==
    { [type |-> TypeName(n)] :
        n \in {"string", "number", "boolean", "object", "array", "null",
               "undefined", "function"} }
    \cup { [type |-> TypeList(ns)] :
             ns \in { <<"string", "number">>, <<"object", "string">>,
                      <<"array", "null">>, <<"null", "number">> } }

ObjectSchemas ==
    { PositionSchema,
      [type |-> TypeName("object"),
       properties |-> <<[name |-> "x", schema |-> NumberSchema],
                        [name |-> "y", schema |-> NumberSchema]>>],
      [type |-> TypeName("object"), required |-> <<"y", "x">>],
      [type |-> TypeName("object"), required |-> <<"toString">>],
      [type |-> TypeName("object"),
       properties |-> <<[name |-> "x", schema |-> NumberSchema],
                        [name |-> "toString", schema |-> StringSchema]>>] }

ArraySchemas ==
    { [type |-> TypeName("array")],
      [type |-> TypeName("array"), items |-> ItemsOne(NumberSchema)],
      [type |-> TypeName("array"),
       items |-> ItemsOne([type |-> TypeName("number"), maximum |-> 3])],
      [type |-> TypeName("array"),
       items |-> ItemsList(<<NumberSchema, StringSchema>>)],
      [type |-> TypeName("array"), items |-> ItemsList(<<>>)] }

ScalarSchemas ==
    { [type |-> TypeName("string"), minLength |-> 1, maxLength |-> 3],
      [type |-> TypeName("number"), minimum |-> 0, maximum |-> 3],
      [type |-> TypeList(<<"string", "number">>),
       minLength |-> 4, minimum |-> 4],
      [minLength |-> 1], [maxLength |-> 3], [minimum |-> 0],
      [maximum |-> 3],
      [minLength |-> 0, maxLength |-> 0], [minimum |-> 3, maximum |-> 3] }

ValidateSchemas ==
    TypeSchemas \cup ObjectSchemas \cup ArraySchemas \cup ScalarSchemas

ValidateInputs ==
    { [given |-> TRUE, data |-> d, schema |-> sc, componentType |-> "C"] :
        d \in ValidateData, sc \in ValidateSchemas }

InitValidate ==
    /\ wallet = NULL
    /\ userWalletPublicKey = NULL
    /\ activeSessionKeypair = NULL
    /\ blueprint = NoBlueprint
    /\ entities = <<>>
    /\ pc = "idle"
    /\ pending = NoPending
    /\ calls = <<>>
    /\ last = Returned("constructor", {}, NULL)
    /\ primary = NULL
    /\ sessionFor = NULL
    /\ systems = <<>>
    /\ queries = <<>>
    /\ held = NoHeld
    /\ input \in ValidateInputs
    /\ chain = <<>>
    /\ sessionAuth = NoSession
    /\ now = 0

\* this.validateComponentDataAgainstSchema(data, schema, componentType)
Validate ==
    /\ input.given
    /\ last.op # "validate"
    /\ LET r == validateComponentDataAgainstSchema(
                    input.data, input.schema, input.componentType)
       IN last' = IF r.err # NoError
                  THEN Raised("validate", r.err, NoError, r.warns)
                  ELSE Returned("validate", r.warns, NULL)
    /\ UNCHANGED <<walletVars, blueprint, entities, pc, pending, calls,
                   otherVars>>

NextValidate == Validate

SpecValidate == InitValidate /\ [][NextValidate]_vars

\* The call examined has returned or thrown
Validated == last.op = "validate"

\* The runtime type of a value with an array counted as "array" and null as
\* "null"
RuntimeType(v) ==
    IF v.t \in {"array", "null"} THEN v.t ELSE TypeOf(v)

IncorrectTypeMsg(data, schema, path) ==
    "Data for component \"" \o path \o "\" has incorrect type. Expected "
    \o (IF schema.type.list THEN Join(schema.type.names, " or ")
        ELSE schema.type.names[1])
    \o ", got " \o TypeOf(data) \o "."

\* Validation did not end in the type check's error
PassedTypeCheck ==
    last.msg # IncorrectTypeMsg(input.data, input.schema,
                                input.componentType)

\* C17: the data passes the validator's type check exactly when its runtime
\* type, an array counting as "array" and null as "null" and neither as
\* "object", is schema.type or one of the names schema.type lists; any other
\* data is rejected (the message of the type check being 'Data for
\* component "<path>" has incorrect type. Expected <type(s)>, got
\* <actual>.').
C17_TypeCheckByRuntimeType ==
    ( Validated /\ Has(input.schema, "type") )
    => IF Includes(input.schema.type.names, RuntimeType(input.data))
       THEN PassedTypeCheck
       ELSE last.result = "error"

MissingRequiredMsg(name, path) ==
    "Missing required property \"" \o name \o "\" for component \""
    \o path \o "\"."

\* The names schema.required lists, none if the schema has no such list
RequiredOf(schema) ==
    IF Has(schema, "required") THEN schema.required ELSE <<>>
PropertiesOf(schema) ==
    IF Has(schema, "properties") THEN schema.properties ELSE <<>>

\* The places of schema.required that name no key of the data
MissingKeys(data, schema) ==
    { i \in 1..Len(RequiredOf(schema)) :
        RequiredOf(schema)[i] \notin DOMAIN data.o }

\* C18: validating an object against a schema of type object raises
\* 'Missing required property "<name>" for component "<path>".' exactly when
\* a name of schema.required is not a key of the data (for the first such
\* name, and before any property is validated); with no such name, and every
\* declared property that is a key of the data valid, validation succeeds:
\* a declared property the data lacks never fails it.
C18_RequiredPropertiesOnly ==
    ( /\ Validated
      /\ IsType(input.schema, "object")
      /\ input.data.t = "object" )
    => LET missing == MissingKeys(input.data, input.schema)
           first == CHOOSE i \in missing : \A j \in missing : i <= j
           props == PropertiesOf(input.schema)
       IN IF missing # {}
          THEN /\ last.result = "error"
               /\ last.msg =
                    MissingRequiredMsg(RequiredOf(input.schema)[first],
                                       input.componentType)
          ELSE /\ \A i \in 1..Len(RequiredOf(input.schema)) :
                     last.msg #
                       MissingRequiredMsg(RequiredOf(input.schema)[i],
                                          input.componentType)
               /\ ( \A i \in 1..Len(props) :
                       props[i].name \in DOMAIN input.data.o
                       => validateComponentDataAgainstSchema(
                              input.data.o[props[i].name], props[i].schema,
                              input.componentType \o "." \o props[i].name
                          ).err = NoError )
                  => last.result = "ok"

\* The error validating the i-th element on its own raises, if any
ElementError(i) ==
    validateComponentDataAgainstSchema(
        input.data.a[i], input.schema.items.schemas[1],
        input.componentType \o "[" \o ToString(i - 1) \o "]").err

\* C19: validating an array against a schema of type array with an items
\* schema succeeds exactly when every element passes the items schema (of a
\* list of schemas, the first), and otherwise raises the error of the element
\* of lowest index that fails, at path '<path>[<index>]'; an empty array is
\* accepted whatever the schema's items.
C19_ArrayItems ==
    ( Validated /\ IsType(input.schema, "array") /\ IsArray(input.data) )
    => /\ Len(input.data.a) = 0 => last.result = "ok"
       /\ ( Has(input.schema, "items")
            /\ Len(input.schema.items.schemas) > 0 )
          => LET failing == { i \in 1..Len(input.data.a) :
                                ElementError(i) # NoError }
                 lowest == CHOOSE i \in failing : \A j \in failing : i <= j
             IN IF failing = {}
                THEN last.result = "ok"
                ELSE /\ last.result = "error"
                     /\ last.msg = ElementError(lowest)

\* three elements checked against a list of item schemas: the second one
\* fails the first schema of the list and would pass the second
C19_Witness ==
    /\ Validated
    /\ input.data = JArr(<<JNum(1), JStr("a"), JBool(TRUE)>>)
    /\ Has(input.schema, "items")
    /\ input.schema.items = ItemsList(<<NumberSchema, StringSchema>>)
    /\ last.msg = IncorrectTypeMsg(JStr("a"), NumberSchema, "C[1]")

TooShortMsg(length, bound, path) ==
    "Component \"" \o path \o "\" string length " \o ToString(length)
    \o " is less than minimum " \o ToString(bound) \o "."
TooLongMsg(length, bound, path) ==
    "Component \"" \o path \o "\" string length " \o ToString(length)
    \o " exceeds maximum " \o ToString(bound) \o "."
TooSmallMsg(n, bound, path) ==
    "Component \"" \o path \o "\" value " \o ToString(n)
    \o " is less than minimum " \o ToString(bound) \o "."
TooBigMsg(n, bound, path) ==
    "Component \"" \o path \o "\" value " \o ToString(n)
    \o " exceeds maximum " \o ToString(bound) \o "."

\* C20: on data that passed the type check of a schema with string or number
\* constraints, validation raises exactly when the data is a string shorter
\* than minLength or longer than maxLength, or a number below minimum or
\* above maximum, with the message of the first such constraint; a value
\* equal to its bound passes, a bound of 0 is applied, and a constraint on
\* strings is skipped for a number (and the reverse, and for any other data).
C20_ScalarConstraints ==
    ( /\ Validated
      /\ input.schema \in ScalarSchemas
      /\ Has(input.schema, "type") => PassedTypeCheck )
    => LET d == input.data
           sc == input.schema
           path == input.componentType
           tooShort == /\ Has(sc, "minLength") /\ d.t = "string"
                       /\ Len(d.s) < sc.minLength
           tooLong == /\ Has(sc, "maxLength") /\ d.t = "string"
                      /\ Len(d.s) > sc.maxLength
           tooSmall == /\ Has(sc, "minimum") /\ d.t = "number"
                       /\ d.n < sc.minimum
           tooBig == /\ Has(sc, "maximum") /\ d.t = "number"
                     /\ d.n > sc.maximum
       IN CASE tooShort ->
                 last.msg = TooShortMsg(Len(d.s), sc.minLength, path)
            [] ~tooShort /\ tooLong ->
                 last.msg = TooLongMsg(Len(d.s), sc.maxLength, path)
            [] tooSmall ->
                 last.msg = TooSmallMsg(d.n, sc.minimum, path)
            [] ~tooSmall /\ tooBig ->
                 last.msg = TooBigMsg(d.n, sc.maximum, path)
            [] OTHER -> last.result = "ok"

\* the number -1 was rejected by a minimum of 0
C20_Witness ==
    /\ Validated
    /\ input.data = JNum(0 - 1)
    /\ input.schema = [minimum |-> 0]
    /\ last.msg = TooSmallMsg(0 - 1, 0, "C")

(***************************************************************************)
(* The storage adapters, called on their own.  The chain connection is the *)
(* environment: each call of it resolves with a value or rejects with an   *)
(* Error.  An adapter method is one action, the connection's answers to    *)
(* its awaits being inputs of the action.                                  *)
(***************************************************************************)
\* A Buffer holding the given text; an object, truthy whatever its length
JBuf(bytes) == [t |-> "buffer", bytes |-> bytes]

\* What an awaited call of the connection does
Resolved(v) == [ok |-> TRUE, value |-> v]
Rejected(message) == [ok |-> FALSE, message |-> message]

\* An address: the public key of a keypair, or the program-derived address
\* of a list of seeds
KeyAddress(name) == [kind |-> "key", name |-> name]
DerivedAddress(seeds, programId) ==
    [kind |-> "pda", seeds |-> seeds, programId |-> programId]

\* PublicKey.findProgramAddressSync(seeds, programId): it throws for a seed
\* of more than 32 bytes
findProgramAddressSync(seeds, programId) ==
    IF \E i \in 1..Len(seeds) : Len(seeds[i]) > 32
    THEN Rejected("Max seed length exceeded")
    ELSE Resolved(DerivedAddress(seeds, programId))

\* What an adapter method does: it resolves with ret, or rejects with an
\* error of the given message and code (NULL for a plain Error); logs is
\* what it wrote to the console
Resolves(ret, logs) ==
    [err |-> NoError, code |-> NULL, ret |-> ret, logs |-> logs]
Rejects(message, code, logs) ==
    [err |-> message, code |-> code, ret |-> JUndef, logs |-> logs]

\* accountInfo?.data || null
DataOrNull(accountInfo) ==
    LET data == IF accountInfo.t \in {"null", "undefined"} THEN JUndef
                ELSE Field(accountInfo, "data")
    IN IF Truthy(data) THEN data ELSE JNull

\* SolanaStorageAdapter.getData (permissive generation); info is what
\* connection.getAccountInfo(address) does
getData(address, info) ==
    IF info.ok THEN Resolves(DataOrNull(info.value), {})
    ELSE Resolves(JNull, {"Error fetching data from SolanaStorageAdapter:"})

\* SolanaStorageAdapter.getMultipleAccounts (permissive generation); infos
\* is what connection.getMultipleAccountsInfo(addresses) does
getMultipleAccounts(addresses, infos) ==
    IF infos.ok
    THEN Resolves(JArr([i \in 1..Len(infos.value) |->
                           DataOrNull(infos.value[i])]), {})
    ELSE Resolves(JArr([i \in 1..Len(addresses) |-> JNull]),
                  {"Error fetching multiple accounts from SolanaStorageAdapter:"})

\* The program the adapter was constructed for
programId == KeyAddress("Program")

\* The seeds of an entity's address
EntitySeeds(worldName, entityId) == <<"entity", worldName, entityId>>

\* SolanaStorageAdapter.getEntityDataById (permissive generation)
getEntityDataById(entityId, worldName, info) ==
    LET derived == findProgramAddressSync(EntitySeeds(worldName, entityId),
                                          programId)
    IN IF ~derived.ok
       THEN Resolves(JNull,
                     {"Error in SolanaStorageAdapter.getEntityDataById for entityId \""
                      \o entityId \o "\":"})
       ELSE LET r == getData(derived.value, info) IN
            Resolves(r.ret,
                     {"Derived Entity PDA for ID \"" \o entityId
                      \o "\" in world \"" \o worldName \o "\""}
                     \cup r.logs)

\* How an adapter method ended, as the record of the latest operation
AdapterResult(op, r) ==
    IF r.err # NoError THEN Raised(op, r.err, r.code, r.logs)
    ELSE Returned(op, r.logs, r.ret)

\* await storage.getData(address)
StorageGetData(address, info) ==
    /\ pc = "idle"
    /\ input' = [given |-> TRUE, op |-> "getData", address |-> address,
                 info |-> info]
    /\ last' = AdapterResult("getData", getData(address, info))
    /\ calls' = <<>>
    /\ UNCHANGED <<walletVars, blueprint, entities, pc, pending, systems,
                   queries, held, outerVars>>

\* await storage.getMultipleAccounts(addresses)
StorageGetMultipleAccounts(addresses, infos) ==
    /\ pc = "idle"
    /\ input' = [given |-> TRUE, op |-> "getMultipleAccounts",
                 addresses |-> addresses, infos |-> infos]
    /\ last' = AdapterResult("getMultipleAccounts",
                             getMultipleAccounts(addresses, infos))
    /\ calls' = <<>>
    /\ UNCHANGED <<walletVars, blueprint, entities, pc, pending, systems,
                   queries, held, outerVars>>

\* await storage.getEntityDataById(entityId, worldName)
StorageGetEntityDataById(entityId, worldName, info) ==
    /\ pc = "idle"
    /\ input' = [given |-> TRUE, op |-> "getEntityDataById",
                 entityId |-> entityId, worldName |-> worldName,
                 info |-> info]
    /\ last' = AdapterResult("getEntityDataById",
                             getEntityDataById(entityId, worldName, info))
    /\ calls' = <<>>
    /\ UNCHANGED <<walletVars, blueprint, entities, pc, pending, systems,
                   queries, held, outerVars>>

(***************************************************************************)
(* SpecPermissive: the read methods of the permissive adapter against      *)
(* every answer of the connection.                                         *)
(***************************************************************************)
ReadAddresses == {KeyAddress("Acc1"), KeyAddress("Acc2")}

\* What getAccountInfo resolves with: no account, an account whose data is
\* null (the test suite's "no data"), an account of zero bytes, an account
\* with bytes
AccountInfos ==
    { JNull, JObj([data |-> JNull]), JObj([data |-> JBuf("")]),
      JObj([data |-> JBuf("mock account data")]) }

InfoReplies ==
    {Rejected("Fetch failed")} \cup { Resolved(i) : i \in AccountInfos }

\* The addresses of a batch and what getMultipleAccountsInfo does with them:
\* it rejects, or resolves with one entry per address
BatchInputs ==
    UNION { { [addresses |-> as, infos |-> r] :
                as \in [1..n -> ReadAddresses],
                r \in {Rejected("Fetch failed")}
                      \cup { Resolved(is) : is \in [1..n -> AccountInfos] } } :
            n \in 0..MaxAccounts }

\* An id as the test suite uses them, and one as RushSDK.createEntity mints
\* them: the base58 text of a public key
AdapterEntityIds ==
    {"testEntity123", "4Nd1mBQtrMJVYVfKf2PJy9NZUZdTAsp7D4xWLs4gDB4T"}
WorldNames == {"default_world", "testWorld"}

NextPermissive ==
    \/ \E a \in ReadAddresses, info \in InfoReplies : StorageGetData(a, info)
    \/ \E b \in BatchInputs :
          StorageGetMultipleAccounts(b.addresses, b.infos)
    \/ \E id \in AdapterEntityIds, w \in WorldNames, info \in InfoReplies :
          StorageGetEntityDataById(id, w, info)

SpecPermissive == Init /\ [][NextPermissive]_vars

\* The account getAccountInfo resolved with carries no bytes: no data at
\* all or a Buffer of length zero
EmptyPayload(accountInfo) ==
    /\ accountInfo.t = "object"
    /\ \/ Field(accountInfo, "data").t # "buffer"
       \/ Len(Field(accountInfo, "data").bytes) = 0

\* A single fetch that failed, found no account or found one without bytes
NothingFetched(info) ==
    \/ ~info.ok
    \/ info.value = JNull
    \/ EmptyPayload(info.value)

\* C21: getData, getMultipleAccounts and getEntityDataById of the permissive
\* adapter never raise; a fetch failure, a missing account and an account
\* with an empty payload resolve to null (in a batch, to a null entry), and
\* a failed batch fetch resolves to an array of nulls with one entry per
\* requested address.
C21_PermissiveReadsNeverRaise ==
    ( input.given
      /\ last.op \in {"getData", "getMultipleAccounts", "getEntityDataById"} )
    => /\ last.result = "ok"
       /\ ( last.op \in {"getData", "getEntityDataById"}
            /\ NothingFetched(input.info) )
          => last.ret = JNull
       /\ last.op = "getMultipleAccounts"
          => IF input.infos.ok
             THEN /\ Len(last.ret.a) = Len(input.addresses)
                  /\ \A i \in 1..Len(input.addresses) :
                        NothingFetched(Resolved(input.infos.value[i]))
                        => last.ret.a[i] = JNull
             ELSE last.ret = JArr([i \in 1..Len(input.addresses) |-> JNull])

(***************************************************************************)
(* The strict generation of the adapter (SolanaStorageError with a code).  *)
(***************************************************************************)
\* address.toString()
AddressText(address) ==
    IF address.kind = "key" THEN address.name
    ELSE "pda(" \o Join(address.seeds, ",") \o ")"

\* !accountInfo || !accountInfo.data
NoAccountData(accountInfo) ==
    \/ ~Truthy(accountInfo)
    \/ ~Truthy(Field(accountInfo, "data"))

\* SolanaStorageAdapter.getData (strict generation): the error thrown in the
\* try block is caught and wrapped
StrictGetData(address, info) ==
    LET thrown == IF ~info.ok THEN info.message
                  ELSE IF NoAccountData(info.value)
                  THEN "Account data not found for address "
                       \o AddressText(address)
                  ELSE NoError
    IN IF thrown # NoError
       THEN Rejects("Failed to fetch data for address "
                    \o AddressText(address) \o ": " \o thrown,
                    "DATA_FETCH_ERROR",
                    {"Error fetching data from SolanaStorageAdapter:"})
       ELSE Resolves(Field(info.value, "data"), {})

\* The first entry of a batch without account data, 0 if there is none
FirstWithoutData(infos) ==
    IF \E i \in 1..Len(infos) : NoAccountData(infos[i])
    THEN CHOOSE i \in 1..Len(infos) :
            /\ NoAccountData(infos[i])
            /\ \A j \in 1..(i - 1) : ~NoAccountData(infos[j])
    ELSE 0

\* SolanaStorageAdapter.getMultipleAccounts (strict generation)
StrictGetMultipleAccounts(addresses, infos) ==
    LET thrown == IF ~infos.ok THEN infos.message
                  ELSE IF FirstWithoutData(infos.value) # 0
                  THEN "Account data not found for address "
                       \o AddressText(
                              addresses[FirstWithoutData(infos.value)])
                  ELSE NoError
    IN IF thrown # NoError
       THEN Rejects("Failed to fetch multiple accounts: " \o thrown,
                    "MULTIPLE_ACCOUNTS_FETCH_ERROR",
                    {"Error fetching multiple accounts from SolanaStorageAdapter:"})
       ELSE Resolves(JArr([i \in 1..Len(infos.value) |->
                              Field(infos.value[i], "data")]), {})

\* The error of connection.sendTransaction followed by
\* connection.confirmTransaction, NoError if both resolve; what
\* confirmTransaction resolves with is not looked at
SendAndConfirmError(sent, confirmed) ==
    IF ~sent.ok THEN sent.message
    ELSE IF ~confirmed.ok THEN confirmed.message
    ELSE NoError

\* SolanaStorageAdapter.sendTransaction (strict generation)
StrictSendTransaction(sent, confirmed) ==
    IF SendAndConfirmError(sent, confirmed) # NoError
    THEN Rejects("Transaction failed: "
                 \o SendAndConfirmError(sent, confirmed),
                 "TRANSACTION_SEND_ERROR",
                 {"Error sending transaction from SolanaStorageAdapter:"})
    ELSE Resolves(JStr(sent.value), {})

\* SolanaStorageAdapter.sendAndConfirmTransaction (strict generation,
\* private): the message of the SolanaStorageError it throws, NoError if the
\* signature is returned
sendAndConfirmTransaction(sent, confirmed) ==
    IF SendAndConfirmError(sent, confirmed) # NoError
    THEN "Transaction failed: " \o SendAndConfirmError(sent, confirmed)
    ELSE NoError

\* SolanaStorageAdapter.getEntityDataById (strict generation)
StrictGetEntityDataById(entityId, worldName, info) ==
    LET derived == findProgramAddressSync(
                       <<"entity", worldName, entityId>>, programId)
        thrown == IF ~derived.ok THEN derived.message
                  ELSE IF ~info.ok THEN info.message
                  ELSE IF NoAccountData(info.value)
                  THEN "Entity " \o entityId \o " not found in world "
                       \o worldName
                  ELSE NoError
    IN IF thrown # NoError
       THEN Rejects("Failed to get entity data for ID " \o entityId \o ": "
                    \o thrown,
                    "ENTITY_GET_ERROR",
                    {"Error in SolanaStorageAdapter.getEntityDataById for entityId \""
                     \o entityId \o "\":"})
       ELSE Resolves(Field(info.value, "data"), {})

\* The instructions of a transaction
CreateAccount(fromPubkey, newAccountPubkey, space, owner) ==
    [program |-> "SystemProgram.createAccount", fromPubkey |-> fromPubkey,
     newAccountPubkey |-> newAccountPubkey, space |-> space,
     programId |-> owner]
AccountMeta(pubkey, isSigner, isWritable) ==
    [pubkey |-> pubkey, isSigner |-> isSigner, isWritable |-> isWritable]
Instruction(keys, data) ==
    [program |-> "programId", keys |-> keys, data |-> data]

\* entityData.length, kept symbolic
LengthOf(data) == [lengthOf |-> data]

\* Keypair.generate() for an entity account: a key no account has; keys being
\* opaque, the next in a fixed enumeration
NewAccountKey == KeyAddress("Entity" \o ToString(Len(chain) + 1))

\* What a writing method did: r is how it ended, transaction and signers
\* what it submitted (submitted is FALSE if it failed before)
Written(r, submitted, transaction, signers) ==
    [r |-> r, submitted |-> submitted, transaction |-> transaction,
     signers |-> signers]

\* SolanaStorageAdapter.createEntity (strict generation); rent is what
\* getMinimumBalanceForRentExemption does
StrictCreateEntity(entityData, payer, worldName, rent, sent, confirmed) ==
    LET world == findProgramAddressSync(<<"world", worldName>>, programId)
        entityAccount == NewAccountKey
        thrown == IF ~world.ok THEN world.message
                  ELSE IF ~rent.ok THEN rent.message
                  ELSE sendAndConfirmTransaction(sent, confirmed)
    IN Written(
         IF thrown # NoError
         THEN Rejects("Failed to create entity: " \o thrown,
                      "ENTITY_CREATE_ERROR",
                      {"Error in SolanaStorageAdapter.createEntity:"})
         ELSE Resolves(JStr(sent.value), {}),
         world.ok /\ rent.ok,
         IF world.ok
         THEN << CreateAccount(KeyAddress(payer), entityAccount,
                               LengthOf(entityData), programId),
                 Instruction(<< AccountMeta(KeyAddress(payer), TRUE, TRUE),
                                AccountMeta(entityAccount, FALSE, TRUE),
                                AccountMeta(world.value, FALSE, TRUE) >>,
                             entityData) >>
         ELSE <<>>,
         <<KeyAddress(payer), entityAccount>>)

\* The body setEntityDataById and deleteEntityById share (strict
\* generation): one instruction on the entity's derived address
StrictEntityInstruction(entityId, data, payer, worldName, sent, confirmed, failed, code, where) ==
    LET derived == findProgramAddressSync(
                       <<"entity", worldName, entityId>>, programId)
        thrown == IF ~derived.ok THEN derived.message
                  ELSE sendAndConfirmTransaction(sent, confirmed)
    IN Written(
         IF thrown # NoError
         THEN Rejects(failed \o entityId \o ": " \o thrown, code,
                      {"Error in SolanaStorageAdapter." \o where
                       \o " for entityId \"" \o entityId \o "\":"})
         ELSE Resolves(JStr(sent.value), {}),
         derived.ok,
         IF derived.ok
         THEN << Instruction(<< AccountMeta(KeyAddress(payer), TRUE, TRUE),
                                AccountMeta(derived.value, FALSE, TRUE) >>,
                             data) >>
         ELSE <<>>,
         <<KeyAddress(payer)>>)

\* SolanaStorageAdapter.setEntityDataById (strict generation)
StrictSetEntityDataById(entityId, data, payer, worldName, sent, confirmed) ==
    StrictEntityInstruction(entityId, data, payer, worldName, sent, confirmed,
                            "Failed to set entity data for ID ",
                            "ENTITY_SET_ERROR", "setEntityDataById")

\* SolanaStorageAdapter.deleteEntityById (strict generation)
StrictDeleteEntityById(entityId, payer, worldName, sent, confirmed) ==
    StrictEntityInstruction(entityId, JBuf(""), payer, worldName, sent,
                            confirmed,
                            "Failed to delete entity with ID ",
                            "ENTITY_DELETE_ERROR", "deleteEntityById")

\* SolanaStorageAdapter.migrate (strict generation): the world address is
\* derived from the world name alone, the payload is the bump
StrictMigrate(worldName, payer, sent, confirmed) ==
    LET world == findProgramAddressSync(<<worldName>>, programId)
        thrown == IF ~world.ok THEN world.message
                  ELSE sendAndConfirmTransaction(sent, confirmed)
    IN Written(
         IF thrown # NoError
         THEN Rejects("Failed to migrate world: " \o thrown,
                      "WORLD_MIGRATE_ERROR",
                      {"Error in SolanaStorageAdapter.migrate:"})
         ELSE Resolves(JStr(sent.value), {}),
         world.ok,
         IF world.ok
         THEN << Instruction(<< AccountMeta(KeyAddress(payer), TRUE, TRUE),
                                AccountMeta(world.value, FALSE, TRUE) >>,
                             JBuf("worldBump")) >>
         ELSE <<>>,
         <<KeyAddress(payer)>>)

\* The transaction went through: it was sent and confirmed without error
Landed(sent, confirmed) ==
    /\ sent.ok
    /\ confirmed.ok
    /\ Field(confirmed.value, "err") = JNull

\* An account a transaction allocated
Allocated(address, payload, worldName) ==
    [address |-> address, owner |-> programId, payload |-> payload,
     worldName |-> worldName]

\* A writing method of an adapter as a step: given is the record of its
\* arguments and of the connection's answers, w what the method did,
\* allocated the accounts its transaction creates once it lands
StorageWrite(op, given, w, landed, allocated) ==
    /\ input' = given
    /\ last' = AdapterResult(op, w.r)
    /\ calls' = IF w.submitted
                THEN <<[op |-> "sendTransaction",
                        transaction |-> w.transaction,
                        signers |-> w.signers,
                        status |-> IF landed THEN "ok" ELSE "failed"]>>
                ELSE <<>>
    /\ chain' = IF w.submitted /\ landed THEN chain \o allocated ELSE chain
    /\ UNCHANGED <<walletVars, blueprint, entities, pc, pending, systems,
                   queries, held, sessionAuth, now>>

\* A reading method of an adapter as a step
StorageRead(op, given, r) ==
    /\ input' = given
    /\ last' = AdapterResult(op, r)
    /\ calls' = <<>>
    /\ UNCHANGED <<walletVars, blueprint, entities, pc, pending, systems,
                   queries, held, outerVars>>

StrictStorageGetData(address, info) ==
    /\ pc = "idle"
    /\ StorageRead("strict.getData",
                   [given |-> TRUE, op |-> "getData", address |-> address,
                    info |-> info],
                   StrictGetData(address, info))

StrictStorageGetMultipleAccounts(addresses, infos) ==
    /\ pc = "idle"
    /\ StorageRead("strict.getMultipleAccounts",
                   [given |-> TRUE, op |-> "getMultipleAccounts",
                    addresses |-> addresses, infos |-> infos],
                   StrictGetMultipleAccounts(addresses, infos))

StrictStorageSendTransaction(sent, confirmed) ==
    /\ pc = "idle"
    /\ StorageRead("strict.sendTransaction",
                   [given |-> TRUE, op |-> "sendTransaction", sent |-> sent,
                    confirmed |-> confirmed],
                   StrictSendTransaction(sent, confirmed))

StrictStorageGetEntityDataById(entityId, worldName, info) ==
    /\ pc = "idle"
    /\ StorageRead("strict.getEntityDataById",
                   [given |-> TRUE, op |-> "getEntityDataById",
                    entityId |-> entityId, worldName |-> worldName,
                    info |-> info],
                   StrictGetEntityDataById(entityId, worldName, info))

StrictStorageCreateEntity(entityData, payer, worldName, rent, sent, confirmed) ==
    /\ pc = "idle"
    /\ Len(chain) < MaxAccounts
    /\ StorageWrite("strict.createEntity",
                    [given |-> TRUE, op |-> "createEntity",
                     entityData |-> entityData, worldName |-> worldName,
                     rent |-> rent, sent |-> sent, confirmed |-> confirmed],
                    StrictCreateEntity(entityData, payer, worldName, rent,
                                       sent, confirmed),
                    Landed(sent, confirmed),
                    <<Allocated(NewAccountKey, entityData, worldName)>>)

StrictStorageSetEntityDataById(entityId, data, payer, worldName, sent, confirmed) ==
    /\ pc = "idle"
    /\ StorageWrite("strict.setEntityDataById",
                    [given |-> TRUE, op |-> "setEntityDataById",
                     entityId |-> entityId, worldName |-> worldName,
                     sent |-> sent, confirmed |-> confirmed],
                    StrictSetEntityDataById(entityId, data, payer, worldName,
                                            sent, confirmed),
                    Landed(sent, confirmed), <<>>)

StrictStorageDeleteEntityById(entityId, payer, worldName, sent, confirmed) ==
    /\ pc = "idle"
    /\ StorageWrite("strict.deleteEntityById",
                    [given |-> TRUE, op |-> "deleteEntityById",
                     entityId |-> entityId, worldName |-> worldName,
                     sent |-> sent, confirmed |-> confirmed],
                    StrictDeleteEntityById(entityId, payer, worldName, sent,
                                           confirmed),
                    Landed(sent, confirmed), <<>>)

StrictStorageMigrate(worldName, payer, sent, confirmed) ==
    /\ pc = "idle"
    /\ StorageWrite("strict.migrate",
                    [given |-> TRUE, op |-> "migrate", worldName |-> worldName,
                     sent |-> sent, confirmed |-> confirmed],
                    StrictMigrate(worldName, payer, sent, confirmed),
                    Landed(sent, confirmed), <<>>)

(***************************************************************************)
(* SpecStrict: every method of the strict adapter against every answer of  *)
(* the connection.                                                         *)
(***************************************************************************)
SendReplies == {Rejected("Send failed"), Resolved("mocksig1")}
\* confirmTransaction rejects, or resolves with the transaction's status
ConfirmReplies ==
    { Rejected("Confirm failed"), Resolved(JObj([err |-> JNull])),
      Resolved(JObj([err |-> JStr("InstructionError")])) }
RentReplies == {Rejected("Rent failed"), Resolved(JNum(1))}

\* The payloads RushSDK hands over: the serialized entity
EntityDatas ==
    { serializeEntityData(NewEntity(id, id)) : id \in AdapterEntityIds }

\* World names, one of them of more than 32 bytes
StrictWorldNames ==
    WorldNames \cup {"a_world_name_of_more_than_thirty_two_bytes"}

NextStrict ==
    \/ \E a \in ReadAddresses, info \in InfoReplies :
          StrictStorageGetData(a, info)
    \/ \E b \in BatchInputs :
          StrictStorageGetMultipleAccounts(b.addresses, b.infos)
    \/ \E sent \in SendReplies, confirmed \in ConfirmReplies :
          StrictStorageSendTransaction(sent, confirmed)
    \/ \E id \in AdapterEntityIds, w \in StrictWorldNames,
          info \in InfoReplies :
          StrictStorageGetEntityDataById(id, w, info)
    \/ \E d \in EntityDatas, w \in StrictWorldNames, rent \in RentReplies,
          sent \in SendReplies, confirmed \in ConfirmReplies :
          StrictStorageCreateEntity(d, "W1", w, rent, sent, confirmed)
    \/ \E id \in AdapterEntityIds, d \in EntityDatas, w \in StrictWorldNames,
          sent \in SendReplies, confirmed \in ConfirmReplies :
          StrictStorageSetEntityDataById(id, d, "W1", w, sent, confirmed)
    \/ \E id \in AdapterEntityIds, w \in StrictWorldNames,
          sent \in SendReplies, confirmed \in ConfirmReplies :
          StrictStorageDeleteEntityById(id, "W1", w, sent, confirmed)
    \/ \E w \in StrictWorldNames, sent \in SendReplies,
          confirmed \in ConfirmReplies :
          StrictStorageMigrate(w, "W1", sent, confirmed)

SpecStrict == Init /\ [][NextStrict]_vars

\* The code the claim gives each method of the strict adapter
StrictCode ==
    [getData |-> "DATA_FETCH_ERROR",
     getMultipleAccounts |-> "MULTIPLE_ACCOUNTS_FETCH_ERROR",
     sendTransaction |-> "TRANSACTION_SEND_ERROR",
     createEntity |-> "ENTITY_CREATE_ERROR",
     getEntityDataById |-> "ENTITY_GET_ERROR",
     setEntityDataById |-> "ENTITY_SET_ERROR",
     deleteEntityById |-> "ENTITY_DELETE_ERROR",
     migrate |-> "WORLD_MIGRATE_ERROR"]

\* An address of the operation could not be derived
DerivationFails ==
    CASE input.op = "createEntity" ->
           ~findProgramAddressSync(<<"world", input.worldName>>,
                                   programId).ok
      [] input.op = "migrate" ->
           ~findProgramAddressSync(<<input.worldName>>, programId).ok
      [] input.op \in {"getEntityDataById", "setEntityDataById",
                       "deleteEntityById"} ->
           ~findProgramAddressSync(
                <<"entity", input.worldName, input.entityId>>,
                programId).ok
      [] OTHER -> FALSE

\* The transaction of the operation was not sent or not confirmed
TransactionFails ==
    /\ input.op \in {"sendTransaction", "createEntity", "setEntityDataById",
                     "deleteEntityById", "migrate"}
    /\ \/ ~input.sent.ok
       \/ ~input.confirmed.ok

\* The operation examined failed: a fetch failed or found nothing, an
\* address could not be derived, or the transaction was not sent or not
\* confirmed
StrictOperationFails ==
    \/ input.op \in {"getData", "getEntityDataById"}
       /\ NothingFetched(input.info)
    \/ input.op = "getMultipleAccounts"
       /\ \/ ~input.infos.ok
          \/ \E i \in 1..Len(input.infos.value) :
                NothingFetched(Resolved(input.infos.value[i]))
    \/ input.op = "createEntity" /\ ~input.rent.ok
    \/ DerivationFails
    \/ TransactionFails

\* C22: in the strict adapter every failure of an operation (a failed
\* fetch, an account not found or found empty, a batch with one such
\* account, a transaction not sent or not confirmed) raises an error with
\* the operation's own code, and no operation returns an absent value.
C22_StrictFailuresRaiseOwnCode ==
    ( input.given
      /\ last.op \in { "strict." \o op : op \in DOMAIN StrictCode } )
    => /\ StrictOperationFails
          => /\ last.result = "error"
             /\ last.cause = StrictCode[input.op]
       /\ last.result = "error" => last.cause = StrictCode[input.op]
       /\ last.result = "ok"
          => /\ last.ret \notin {JNull, JUndef}
             /\ input.op = "getMultipleAccounts"
                => \A i \in 1..Len(last.ret.a) :
                      last.ret.a[i] \notin {JNull, JUndef}

(***************************************************************************)
(* Session authentication behind the facade's pass-throughs.  SessionAuth  *)
(* keeps two persisted entries ('session', 'sessionData') and an in-memory *)
(* expiration; the clock `now` is Date.now() in ticks.                     *)
(***************************************************************************)
\* The clock is advanced while it reads less than MaxTime
MaxTime == 4
\* the fixed duration of a session, in ticks
SessionDuration == 2

SessionDatas == {"user1", "user2"}
SessionKeypairs == {"S1"}
IVs == {"iv1", "iv2"}

\* The IV followed by the secret key encrypted under the key derived from
\* sessionData: only that sessionData recovers the keypair
Encrypted(keypair, iv, sessionData) ==
    [iv |-> iv, key |-> sessionData, secret |-> keypair]
\* A string that is no IV followed by a ciphertext
Malformed == [iv |-> "", malformed |-> TRUE]
Ciphertexts ==
    { Encrypted(k, iv, sd) : k \in SessionKeypairs, iv \in IVs,
                             sd \in SessionDatas } \cup {Malformed}

\* SessionAuth.createSession at instant t
createSession(sessionData, keypair, iv, t) ==
    LET encrypted == Encrypted(keypair, iv, sessionData)
    IN [ret |-> encrypted,
        auth |-> [session |-> encrypted,
                  sessionData |-> sessionData,
                  sessionExpiration |-> t + SessionDuration]]

\* SessionAuth.decrypt against the persisted session data
decrypt(encrypted, auth) ==
    IF auth.sessionData = NULL
    THEN [err |-> "There is no sessionData", keypair |-> NULL]
    ELSE IF "secret" \notin DOMAIN encrypted
            \/ encrypted.key # auth.sessionData
    THEN [err |-> "Malformed session key", keypair |-> NULL]
    ELSE [err |-> NoError, keypair |-> encrypted.secret]

\* SessionAuth.validateSession at instant t.  Whether a failed decryption
\* is swallowed or propagated, and the verdict at the expiration instant
\* itself, are left open: `swallows` and `atInstant` range over both.
validateSession(encrypted, auth, t, swallows, atInstant) ==
    LET d == decrypt(encrypted, auth)
    IN IF d.err # NoError
       THEN [err |-> IF swallows THEN NoError ELSE d.err, ret |-> FALSE]
       ELSE [err |-> NoError,
             ret |-> IF t = auth.sessionExpiration THEN atInstant
                     ELSE t < auth.sessionExpiration]

\* (mutant) a validation that threw counts as a valid session
validateUserSession_trueOnError(encrypted, swallows, atInstant) ==
    LET r == validateSession(encrypted, sessionAuth, now, swallows, atInstant)
    IN IF r.err # NoError
       THEN [ret |-> TRUE, logs |-> {"Error validating user session:"}]
       ELSE [ret |-> r.ret, logs |-> {}]

\* RushSDK.validateUserSession
validateUserSession(encrypted, swallows, atInstant) ==
    LET r == validateSession(encrypted, sessionAuth, now, swallows, atInstant)
    IN IF r.err # NoError
       THEN [ret |-> FALSE, logs |-> {"Error validating user session:"}]
       ELSE [ret |-> r.ret, logs |-> {}]

sdkVars ==
    <<walletVars, blueprint, entities, pc, pending, systems, queries, held,
      chain>>

\* RushSDK.createUserSession
CreateUserSession(sessionData, keypair, iv) ==
    /\ pc = "idle"
    /\ LET r == createSession(sessionData, keypair, iv, now)
       IN /\ sessionAuth' = r.auth
          /\ last' = Returned("createUserSession",
                 {"User session created. Encrypted session key generated."},
                 r.ret)
    /\ input' = [given |-> TRUE, op |-> "createUserSession",
                 sessionData |-> sessionData, at |-> now]
    /\ calls' = <<>>
    /\ UNCHANGED <<sdkVars, now>>

\* A call of RushSDK.validateUserSession
ValidateUserSession(encrypted, swallows, atInstant) ==
    /\ pc = "idle"
    /\ LET r == validateUserSession(encrypted, swallows, atInstant)
       IN last' = Returned("validateUserSession", r.logs, r.ret)
    /\ input' = [given |-> TRUE, op |-> "validateUserSession",
                 encrypted |-> encrypted, at |-> now]
    /\ calls' = <<>>
    /\ UNCHANGED <<sdkVars, sessionAuth, now>>

\* localStorage.removeItem('sessionData'), as the browser or a test does
RemoveSessionData ==
    /\ pc = "idle"
    /\ sessionAuth.sessionData # NULL
    /\ sessionAuth' = [sessionAuth EXCEPT !.sessionData = NULL]
    /\ last' = Returned("removeItem", {}, NULL)
    /\ input' = [given |-> TRUE, op |-> "removeItem", key |-> "sessionData"]
    /\ calls' = <<>>
    /\ UNCHANGED <<sdkVars, now>>

\* Time passes
Tick ==
    /\ pc = "idle"
    /\ now < MaxTime
    /\ now' = now + 1
    /\ UNCHANGED <<sdkVars, sessionAuth, last, input, calls>>

NextSessionAuth ==
    \/ \E sd \in SessionDatas, k \in SessionKeypairs, iv \in IVs :
           CreateUserSession(sd, k, iv)
    \/ \E e \in Ciphertexts, swallows, atInstant \in BOOLEAN :
           ValidateUserSession(e, swallows, atInstant)
    \/ RemoveSessionData
    \/ Tick
    \/ \E e \in Ciphertexts, threw, erased \in BOOLEAN :
           RevokeUserSession(e, threw, erased)

SpecSessionAuth == Init /\ [][NextSessionAuth]_vars

(***************************************************************************)
(* Claim about session validity, checked under SpecSessionAuth.            *)
(***************************************************************************)
\* C23: a session validates as true immediately after createSession and as
\* false once its in-memory expiration instant has passed; neither the
\* passing of time nor validateSession changes the persisted encrypted
\* session or the persisted session data.
C23_SessionValidUntilExpiry ==
    [][ /\ \A e \in Ciphertexts, swallows, atInstant \in BOOLEAN :
             ValidateUserSession(e, swallows, atInstant) =>
                 /\ sessionAuth' = sessionAuth
                 /\ ( /\ last.op = "createUserSession"
                      /\ e = last.ret
                      /\ now = input.at )
                    => last'.ret = TRUE
                 /\ ( /\ sessionAuth.sessionExpiration > 0
                      /\ now > sessionAuth.sessionExpiration )
                    => last'.ret = FALSE
        /\ now' # now =>
             /\ sessionAuth'.session = sessionAuth.session
             /\ sessionAuth'.sessionData = sessionAuth.sessionData ]_vars

\* The session just created has outlived its expiration and validates as
\* false, its persisted entries being those createSession wrote
C23_Witness ==
    /\ last.op = "validateUserSession"
    /\ input.encrypted = sessionAuth.session
    /\ sessionAuth.session # NoItem
    /\ sessionAuth.sessionData = sessionAuth.session.key
    /\ now > sessionAuth.sessionExpiration
    /\ last.ret = FALSE

AdapterCreateEntity(entityData, payer, worldName, rent, confirmed) ==
    LET world == findProgramAddressSync(<<"world", worldName>>, programId)
        entityAccount == NewAccountKey
        thrown == IF ~world.ok THEN world.message
                  ELSE IF ~rent.ok THEN rent.message
                  ELSE IF ~confirmed.ok THEN confirmed.message
                  ELSE NoError
    IN Written(
         IF thrown # NoError
         THEN Rejects("Failed to create entity: " \o thrown, NULL,
                      {"Error in SolanaStorageAdapter.createEntity:"})
         ELSE Resolves(JStr(confirmed.value), {}),
         world.ok /\ rent.ok,
         IF world.ok
         THEN << CreateAccount(KeyAddress(payer), entityAccount,
                               LengthOf(entityData), programId),
                 Instruction(<< AccountMeta(KeyAddress(payer), TRUE, TRUE),
                                AccountMeta(world.value, FALSE, TRUE),
                                AccountMeta(entityAccount, FALSE, TRUE),
                                AccountMeta(KeyAddress("SystemProgram"),
                                            FALSE, FALSE) >>,
                             entityData) >>
         ELSE <<>>,
         <<KeyAddress(payer), entityAccount>>)

\* The body setEntityDataById and deleteEntityById share (permissive
\* generation): one instruction on the entity's derived address
AdapterEntityInstruction(entityId, data, payer, payerWritable, worldName, confirmed, failed, where) ==
    LET entityPDA == findProgramAddressSync(EntitySeeds(worldName, entityId),
                                            programId)
        thrown == IF ~entityPDA.ok THEN entityPDA.message
                  ELSE IF ~confirmed.ok THEN confirmed.message
                  ELSE NoError
    IN Written(
         IF thrown # NoError
         THEN Rejects(failed \o thrown, NULL,
                      {"Error in SolanaStorageAdapter." \o where
                       \o " for entityId \"" \o entityId \o "\":"})
         ELSE Resolves(JStr(confirmed.value), {}),
         entityPDA.ok,
         IF entityPDA.ok
         THEN << Instruction(<< AccountMeta(KeyAddress(payer), TRUE,
                                            payerWritable),
                                AccountMeta(entityPDA.value, FALSE, TRUE) >>,
                             data) >>
         ELSE <<>>,
         <<KeyAddress(payer)>>)

\* SolanaStorageAdapter.setEntityDataById (permissive generation)
AdapterSetEntityDataById(entityId, newData, payer, worldName, confirmed) ==
    AdapterEntityInstruction(entityId, newData, payer, FALSE, worldName,
                             confirmed, "Failed to set entity data: ",
                             "setEntityDataById")

\* SolanaStorageAdapter.deleteEntityById (permissive generation)
AdapterDeleteEntityById(entityId, payer, worldName, confirmed) ==
    AdapterEntityInstruction(entityId, JBuf(""), payer, TRUE, worldName,
                             confirmed, "Failed to delete entity: ",
                             "deleteEntityById")

\* await storage.createEntity(entityData, payer, worldName)
StorageCreateEntity(entityData, payer, worldName, rent, confirmed) ==
    /\ pc = "idle"
    /\ Len(chain) < MaxAccounts
    /\ StorageWrite("createEntity",
                    [given |-> TRUE, op |-> "createEntity",
                     entityData |-> entityData, worldName |-> worldName,
                     rent |-> rent, confirmed |-> confirmed],
                    AdapterCreateEntity(entityData, payer, worldName, rent,
                                        confirmed),
                    confirmed.ok,
                    <<Allocated(NewAccountKey, entityData, worldName)>>)

\* await storage.setEntityDataById(entityId, newData, payer, worldName)
StorageSetEntityDataById(entityId, newData, payer, worldName, confirmed) ==
    /\ pc = "idle"
    /\ StorageWrite("setEntityDataById",
                    [given |-> TRUE, op |-> "setEntityDataById",
                     entityId |-> entityId, worldName |-> worldName,
                     confirmed |-> confirmed],
                    AdapterSetEntityDataById(entityId, newData, payer,
                                             worldName, confirmed),
                    confirmed.ok, <<>>)

\* await storage.deleteEntityById(entityId, payer, worldName)
StorageDeleteEntityById(entityId, payer, worldName, confirmed) ==
    /\ pc = "idle"
    /\ StorageWrite("deleteEntityById",
                    [given |-> TRUE, op |-> "deleteEntityById",
                     entityId |-> entityId, worldName |-> worldName,
                     confirmed |-> confirmed],
                    AdapterDeleteEntityById(entityId, payer, worldName,
                                            confirmed),
                    confirmed.ok, <<>>)

\* The entities RushSDK hands over: their ids, and as createEntity and
\* saveToChain serialize them
SavedEntityIds == AdapterEntityIds
PayloadOf(entityId) == serializeEntityData(NewEntity(entityId, entityId))
\* The id written in a serialized entity
IdIn(payload) == Field(payload.json, "id").s

NextPermissiveWrites ==
    \/ \E id \in SavedEntityIds, w \in WorldNames, rent \in RentReplies,
          confirmed \in SendReplies, payer \in Keypairs :
          StorageCreateEntity(PayloadOf(id), payer, w, rent, confirmed)
    \/ \E id \in SavedEntityIds, w \in WorldNames, confirmed \in SendReplies,
          payer \in Keypairs :
          StorageSetEntityDataById(id, PayloadOf(id), payer, w, confirmed)
    \/ \E id \in SavedEntityIds, w \in WorldNames, confirmed \in SendReplies,
          payer \in Keypairs :
          StorageDeleteEntityById(id, payer, w, confirmed)
    \/ \E id \in SavedEntityIds, w \in WorldNames, info \in InfoReplies :
          StorageGetEntityDataById(id, w, info)

SpecPermissiveWrites == Init /\ [][NextPermissiveWrites]_vars

(***************************************************************************)
(* Claim about where an entity lives on chain, checked under               *)
(* SpecPermissiveWrites.                                                   *)
(***************************************************************************)
\* The address getEntityDataById, setEntityDataById and deleteEntityById
\* use for an entity
EntityAddress(worldName, entityId) ==
    DerivedAddress(EntitySeeds(worldName, entityId), programId)

\* C24: the account createEntity allocates for an entity is the one at the
\* address derived from ("entity", worldName, entityId), the address
\* getEntityDataById, setEntityDataById and deleteEntityById use; so an
\* entity created and then saved is updated in the account its creation
\* allocated.
C24_CreatedAtEntityAddress ==
    /\ \A i \in 1..Len(chain) :
          chain[i].address =
              EntityAddress(chain[i].worldName, IdIn(chain[i].payload))
    /\ ( /\ last.op = "setEntityDataById"
         /\ last.result = "ok" )
       => \A i \in 1..Len(chain) :
             ( /\ IdIn(chain[i].payload) = input.entityId
               /\ chain[i].worldName = input.worldName )
             => calls[1].transaction[1].keys[2].pubkey = chain[i].address

(***************************************************************************)
(* SpecQueryCache: the World's five methods, and components given to its   *)
(* entities so that queries tell them apart.                               *)
(***************************************************************************)
CacheQueryLists == { <<>>, <<"position">>, <<"velocity", "position">> }
CacheEntityIds == {IdOf(1), IdOf(2)}
CacheDeltaTimes == {1}

NextQueryCache ==
    \/ \E id \in CacheEntityIds : WorldCreate(id, id)
    \/ \E id \in CacheEntityIds : WorldRemove(id)
    \/ \E system \in Systems : WorldAddSystem(system)
    \/ \E deltaTime \in CacheDeltaTimes : WorldUpdate(deltaTime)
    \/ \E names \in CacheQueryLists : WorldQuery(names)
    \/ \E id \in CacheEntityIds, c \in MovementInputs :
          EntityAddComponent(id, c[1], c[2])

SpecQueryCache == Init /\ [][NextQueryCache]_vars

FirstRejected(bp, components, j) ==
    /\ BlueprintCheck(bp, components[j][1], components[j][2]).err # NoError
    /\ \A m \in 1..(j - 1) :
          BlueprintCheck(bp, components[m][1], components[m][2]).err
            = NoError

\* C28: when the blueprint rejects a component supplied to createEntity,
\* createEntity raises and invokes no storage operation, and the new entity
\* stays in the World with exactly the components processed before the
\* rejected one: the failed call has added one entity.
C28_RejectedComponentLeavesEntity ==
    [][ \A cs \in ComponentsArgs : \A j \in 1..Len(cs) :
          ( /\ createEntity(cs)
            /\ getActivePayer # NULL
            /\ FirstRejected(blueprint, cs, j) )
          => ( /\ last'.op = "createEntity"
               /\ last'.result = "error"
               /\ calls' = <<>>
               /\ pc' = "idle"
               /\ Len(entities') = Len(entities) + 1
               /\ \A i \in 1..Len(entities) : entities'[i] = entities[i]
               /\ entities'[Len(entities')].id = FreshId
               /\ entities'[Len(entities')].components
                    = AsMapping(SubSeq(cs, 1, j - 1)) ) ]_vars

\* createEntity was given Position and then the undeclared position: it
\* raised, and its entity is in the World with Position alone
C28_Witness ==
    /\ blueprint = sampleBlueprint
    /\ last.op = "createEntity"
    /\ last.result = "error"
    /\ last.msg = NotDefinedMsg("position")
    /\ calls = <<>>
    /\ Len(entities) > 0
    /\ entities[Len(entities)].components = [Position |-> PosXY]

(***************************************************************************)
(* SpecChainSync: a World with entities of its own is synchronized with    *)
(* accounts that mention the second of them and an entity only the chain   *)
(* has.                                                                    *)
(***************************************************************************)
ChainOnlyId == "chainOnly"
ChainAccounts ==
    { [pubkey |-> "B1",
       data |-> ChainRecord(JStr(IdOf(2)), JStr("W2"),
                            JObj([Position |-> PosXY]))],
      [pubkey |-> "B2",
       data |-> ChainRecord(JStr(IdOf(2)), JStr("W2"),
                            JObj([Position |-> PosXY, position |-> PosXY]))],
      [pubkey |-> "B3",
       data |-> ChainRecord(JStr(IdOf(2)), JStr("W2"),
                            JObj([Position |-> PosX]))],
      [pubkey |-> "B4", data |-> Garbage],
      [pubkey |-> "B5",
       data |-> ChainRecord(JStr(ChainOnlyId), JStr("W1"),
                            JObj([Position |-> PosXY,
                                  position |-> PosXY]))] }

\* The accounts, by their names above
ChainAccount(name) == CHOOSE a \in ChainAccounts : a.pubkey = name
ChainList(names) == [i \in 1..Len(names) |-> ChainAccount(names[i])]
\* What getProgramAccounts resolves with: records that fit, a rejected
\* record first, last and between two others, bytes that do not decode
ChainLists ==
    { ChainList(names) :
        names \in { <<>>, <<"B1">>, <<"B5">>, <<"B4", "B1">>,
                    <<"B2", "B1">>, <<"B1", "B3">>, <<"B5", "B1">>,
                    <<"B1", "B5", "B3">> } }

\* The components the game gives the entities it creates here
ChainSyncComponentsArgs == { <<>>, << <<"Position", PosXY>> >> }

NextChainSync ==
    \/ setPrimaryWallet("W1")
    \/ \E cs \in ChainSyncComponentsArgs : createEntity(cs)
    \/ \E ok \in BOOLEAN : createEntityAnswered(ok)
    \/ syncWithChain
    \/ \E accounts \in ChainLists : syncWithChainFetched(accounts)
    \/ syncWithChainFetchFailed

SpecChainSync == Init /\ [][NextChainSync]_vars

\* The entities other than the one of this id, in their order
WithoutId(ents, id) == SelectSeq(ents, LAMBDA e : e.id # id)
\* The component names the entity of this id carries, none if there is no
\* such entity
NamesCarried(ents, id) ==
    IF HasEntity(ents, id) THEN DOMAIN getEntity(ents, id).components ELSE {}

\* C27: when a fetched account decodes to a record with a component the
\* blueprint rejects, syncWithChain does not skip the account: it raises
\* 'Failed to sync with chain', applies no account after it, and leaves in
\* the World what was applied before the rejected component, the record's
\* entity included even if it was created for this record.
C27_RejectedRecordAbortsSync ==
    [][ \A accounts \in ChainLists : \A k \in 1..Len(accounts) :
          LET before == SyncAccounts(blueprint, entities,
                                     SubSeq(accounts, 1, k - 1), 1)
              id == RecordId(accounts[k])
              entries == ObjectEntries(accounts[k].data.json.o.components)
          IN \A j \in 1..(IF IsEntityRecord(accounts[k])
                          THEN Len(entries) ELSE 0) :
               ( /\ syncWithChainFetched(accounts)
                 /\ before.err = NoError
                 /\ FirstRejected(blueprint, entries, j) )
               => ( /\ last'.result = "error"
                    /\ last'.msg = SyncFailedMsg
                    /\ HasEntity(entities', id)
                    /\ \A m \in 1..(j - 1) :
                          getEntity(entities', id).components[entries[m][1]]
                            = entries[m][2]
                    /\ NamesCarried(entities', id)
                         = NamesCarried(before.entities, id)
                             \cup { entries[m][1] : m \in 1..(j - 1) }
                    /\ WithoutId(entities', id)
                         = WithoutId(before.entities, id) ) ]_vars

\* syncWithChain has raised over the undeclared position of the record of
\* an entity only the chain has: the entity is in the World with the
\* record's Position
C27_Witness ==
    /\ last.op = "syncWithChain"
    /\ last.result = "error"
    /\ last.msg = SyncFailedMsg
    /\ last.cause = NotDefinedMsg("position")
    /\ HasEntity(entities, ChainOnlyId)
    /\ getEntity(entities, ChainOnlyId).components = [Position |-> PosXY]
    /\ entities[1].id = IdOf(1)

\* C30: syncWithChain removes no local entity and leaves alone every entity
\* the chain does not mention: an entity whose id is in no decoded record
\* is in the World afterwards with the component mapping it had, and every
\* id of the World is still an id of the World.
C30_SyncKeepsUnmentionedEntities ==
    [][ \A accounts \in ChainLists :
          syncWithChainFetched(accounts)
          => /\ \A i \in 1..Len(entities) :
                   HasEntity(entities', entities[i].id)
             /\ \A i \in 1..Len(entities) :
                   ( \A k \in 1..Len(accounts) :
                        Decodes(accounts[k])
                        => RecordId(accounts[k]) # entities[i].id )
                   => entities'[i] = entities[i] ]_vars

\* A synchronization has brought in the entity only the chain has; the
\* first local entity, which no account mentions, carries its component
C30_Witness ==
    /\ last.op = "syncWithChain"
    /\ Len(entities) >= 2
    /\ entities[1].id = IdOf(1)
    /\ DOMAIN entities[1].components # {}
    /\ HasEntity(entities, ChainOnlyId)

(***************************************************************************)
(* What the game does to the World while saveToChain is suspended at an    *)
(* await.                                                                  *)
(***************************************************************************)
\* The World lets go of the object it holds under this id: the positions of
\* the list that hold it keep it
LetGo(pend, ents, id) ==
    [pend EXCEPT !.detached =
        [p \in DOMAIN pend.detached
                 \cup { q \in 1..Len(pend.entitiesToSave) :
                          pend.entitiesToSave[q] = id } |->
            IF p \in DOMAIN pend.detached THEN pend.detached[p]
            ELSE getEntity(ents, id)]]

\* world.removeEntity(id) during the save
SavingWorldRemove(id) ==
    /\ pc = "saveToChain"
    /\ HasEntity(entities, id)
    /\ pending' = LetGo(pending, entities, id)
    /\ entities' = WorldRemoveEntity(entities, id)
    /\ queries' = removeEntityFromQueries(queries, getEntity(entities, id))
    /\ UNCHANGED <<walletVars, blueprint, pc, calls, last, systems, held,
                   input, outerVars>>

\* world.createEntity(id, publicKey) during the save; under an id the World
\* has, Map.set puts the new object in the place of the old one
SavingWorldCreate(id, publicKey) ==
    /\ pc = "saveToChain"
    /\ pending' = IF HasEntity(entities, id)
                  THEN LetGo(pending, entities, id) ELSE pending
    /\ entities' = WorldCreateEntity(entities, id, publicKey)
    /\ queries' = updateQueries(queries, NewEntity(id, publicKey))
    /\ UNCHANGED <<walletVars, blueprint, pc, calls, last, systems, held,
                   input, outerVars>>

\* world.getEntity(id).addComponent(componentType, data) during the save
SavingAddComponent(id, componentType, data) ==
    /\ pc = "saveToChain"
    /\ HasEntity(entities, id)
    /\ entities' = [entities EXCEPT ![IndexOf(entities, id)] =
                       addComponent(@, componentType, data)]
    /\ UNCHANGED <<walletVars, blueprint, pc, pending, calls, last, systems,
                   queries, held, input, outerVars>>

\* entity.addComponent(componentType, data) during the save, on an Entity
\* the game kept from createEntity and the World no longer holds
SavingHeldAddComponent(p, componentType, data) ==
    /\ pc = "saveToChain"
    /\ p \in DOMAIN pending.detached
    /\ p > pending.i
    /\ pending' = [pending EXCEPT !.detached[p] =
                       addComponent(@, componentType, data)]
    /\ UNCHANGED <<walletVars, blueprint, entities, pc, calls, last, systems,
                   queries, held, input, outerVars>>

\* An id createEntity never mints, for the entity the game creates
\* meanwhile
MeanwhileId == "meanwhile"
\* The entities the game removes or changes meanwhile
SavingIds == {IdOf(1), IdOf(2)}
SavingComponentInputs == { <<"velocity", PosXY>> }

NextSaveInterleaved ==
    \/ setPrimaryWallet("W1")
    \/ \E cs \in SessionComponentsArgs : createEntity(cs)
    \/ createEntityAnswered(TRUE)
    \/ saveToChain
    \/ \E ok \in BOOLEAN : saveToChainAnswered(ok)
    \/ \E id \in SavingIds : SavingWorldRemove(id)
    \/ \E id \in {IdOf(1), MeanwhileId} : SavingWorldCreate(id, id)
    \/ \E id \in SavingIds, c \in SavingComponentInputs :
          SavingAddComponent(id, c[1], c[2])
    \/ \E p \in {1, 2}, c \in SavingComponentInputs :
          SavingHeldAddComponent(p, c[1], c[2])

SpecSaveInterleaved == Init /\ [][NextSaveInterleaved]_vars

\* The ids of the calls submitted, in their order
CallIds(cs) == [i \in 1..Len(cs) |-> cs[i].id]

\* C29: saveToChain works on the list of entities it took from the World
\* when it started, and serializes each entity only when its turn comes: of
\* what happens to the World while it is suspended, an entity removed is
\* still submitted, an entity created is not, and a component given to an
\* entity not yet submitted is part of what is submitted for it.
C29_SaveWorksOnListTakenAtStart ==
    [][ /\ (pc = "idle" /\ pc' = "saveToChain")
           => /\ pending'.entitiesToSave = IdsOf(entities)
              /\ pending'.detached = <<>>
        /\ (pc = "saveToChain" /\ pc' = "saveToChain")
           => pending'.entitiesToSave = pending.entitiesToSave
        /\ ( /\ saveToChainAnswered(TRUE)
             /\ pending.i < Len(pending.entitiesToSave)
             /\ getActivePayer # NULL )
           => LET p == pending.i + 1
                  id == pending.entitiesToSave[p]
              IN /\ Len(calls') = p
                 /\ calls'[p].id = id
                 /\ calls'[p].data =
                      serializeEntityData(
                          IF p \in DOMAIN pending.detached
                          THEN pending.detached[p]
                          ELSE getEntity(entities, id))
        /\ ( /\ pc = "saveToChain"
             /\ pc' = "idle"
             /\ last'.result = "ok" )
           => CallIds(calls') = pending.entitiesToSave ]_vars

\* A save of two entities has completed: the second, removed from the World
\* and given a velocity meanwhile, was submitted with it, and the entity
\* created meanwhile was not submitted
C29_Witness ==
    /\ last.op = "saveToChain"
    /\ last.result = "ok"
    /\ Len(calls) = 2
    /\ ~HasEntity(entities, calls[2].id)
    /\ calls[2].data.json.o.components.o = [velocity |-> PosXY]
    /\ HasEntity(entities, MeanwhileId)
    /\ \A i \in 1..Len(calls) : calls[i].id # MeanwhileId

====
